---- MODULE Spec2Model ----
(***************************************************************************)
(* Model of the client orchestration script public/scripts/app.js: the     *)
(* multi-source artist-image pipeline, the tile reveal and fallback         *)
(* engine, the auto-rotation controller and the personality pipeline.       *)
(*                                                                          *)
(* One action is one task of the browser's event loop (a network response,  *)
(* an image load event, a timer, a user event) or one continuation resumed  *)
(* by a promise that has been resolved.  Continuations run before the next  *)
(* task is taken (Quiescent), as the microtask queue does.                  *)
(***************************************************************************)
EXTENDS Integers, Sequences, FiniteSets, TLC

\* ------------------------------------------------------------------ bounds
\* Number of loadUser calls explored (the first is the one made by init).
MaxLoads == 2

\* Artist names and the top-artist lists the Last.fm proxy may answer with.
ArtistNames == {"a1", "a2"}
Batches == {<<"a1">>, <<"a2">>, <<"a1", "a2">>}

\* Number of artists rendered in all, over the loads explored: one load of two
\* artists, or two loads of the same artist (a reload).
MaxRendered == 2

LoadIds == 1..MaxLoads

\* Number of user events explored after the load made by init: that many
\* provider selections, or a username submitted (a reload) and nothing else.
MaxUserEvents == 2

\* --------------------------------------------------------------- constants
ORIGINAL_SOURCE_ORDER == <<"ITUNES", "DISCOGS", "THE_AUDIO_DB">>
Sources == {"ITUNES", "DISCOGS", "THE_AUDIO_DB"}
None == "none"

\* ------------------------------------------------------------- environment
\* What the providers may answer for each artist.  a1 is an artist MusicBrainz
\* resolves with a Discogs relation: iTunes may or may not find album art for
\* it (the answer may differ between two requests), Discogs has an image,
\* TheAudioDB has a thumb that fails to load, and a sample with a mood.  a2 is
\* an artist nobody knows: iTunes finds nothing and MusicBrainz resolves
\* nothing, so that no dependent provider can be asked.
MbAnswers(a) == IF a = "a1" THEN {"both"} ELSE {"none"}
ImageAnswers(a, source) ==
  CASE source = "ITUNES" -> IF a = "a1" THEN {"url", "null"} ELSE {"null"}
    [] source = "DISCOGS" -> {"url"}
    [] source = "THE_AUDIO_DB" -> {"url"}
PersonalityAnswers(a) == {"valid"}
PreloadAnswers(a, source) == IF source = "THE_AUDIO_DB" THEN {FALSE} ELSE {TRUE}

\* The artists whose iTunes artwork isImageLight() finds light under the title.
LightArtwork == {"a1"}

VARIABLES
  imageCache,               \* imageCache["artist:SOURCE"]: "absent" | "null" | "url"
  mbDataCache,              \* imageCache["artist:MB_DATA"]: "absent" | "none" | "mbid" | "both"
  luminanceCache,           \* luminanceCache["artist:SOURCE"]: "absent" | "light" | "dark"
  personalityCache,         \* personalityCache[artist]: "absent" | "valid" | "empty"
  imageSources,             \* CONFIG.imageSources
  currentArtists,
  currentPersonalitySeed,   \* 0 = null, g = seed of the list rendered by load g
  availableSources,
  autoRotationInterval,     \* TRUE while the setInterval is installed
  autoRotationStartTimeout, \* TRUE while the 2 s start timer is pending
  autoRotationSourceIndex,
  autoRotationDirection,
  autoRotationDisabled,
  showPersonalityLoadingTimeout,  \* TRUE while the 1 s timer it names is pending
  leakedLoadingTimers,      \* pending 1 s timers a later loadUser lost the id of
  checkedRadio,             \* the checked radio of .image-sources-config
  tiles,                    \* the .artist elements of contentEl, by data-artist
  domGen,                   \* the load that rendered contentEl (0: no tiles)
  personalityEl,            \* "hidden" | "loading" | "headline"
  headlineOf,               \* the load whose headline is displayed (0: none)
  backgroundColor,          \* the last color given to animateBackgroundColor
  loadCount,                \* number of loadUser calls so far
  userEvents,               \* number of user events since init's own loadUser
  loads,                    \* per loadUser call: the closures of its async work
  musicBrainzRateLimiter,   \* its fields remaining and rateLimited
  call                      \* one call of a helper looked at on its own: its locals

\* the state of the image and personality pipeline, and the state of the
\* helpers looked at on their own
callVars == <<musicBrainzRateLimiter, call>>
pipelineVars == <<imageCache, mbDataCache, luminanceCache, personalityCache, imageSources,
          currentArtists, currentPersonalitySeed, availableSources,
          autoRotationInterval, autoRotationStartTimeout, autoRotationSourceIndex,
          autoRotationDirection, autoRotationDisabled, showPersonalityLoadingTimeout,
          leakedLoadingTimers, checkedRadio, tiles, domGen, personalityEl, headlineOf, backgroundColor,
          loadCount, userEvents, loads>>
vars == <<pipelineVars, callVars>>

\* ------------------------------------------------------------ sequence help
Range(s) == {s[i] : i \in 1..Len(s)}
IndexOf(s, x) == IF x \in Range(s) THEN CHOOSE i \in 1..Len(s) : s[i] = x ELSE 0
Includes(s, x) == x \in Range(s)
Filter(s, x) == SelectSeq(s, LAMBDA y : y # x)
InsertAt(s, i, x) == SubSeq(s, 1, i - 1) \o <<x>> \o SubSeq(s, i, Len(s))

\* [primarySource, ...ORIGINAL_SOURCE_ORDER.filter(s => s !== primarySource)]
PrimaryFirst(primarySource) == <<primarySource>> \o Filter(ORIGINAL_SOURCE_ORDER, primarySource)

sourceNeedsMbData(source) == source = "DISCOGS" \/ source = "THE_AUDIO_DB"

\* ------------------------------------------------------------------- tiles
\* A tile: its class list, the layers with data-has-image, the active layers.
NewTile(primarySource) ==
  [classes |-> {"loading-image"}, hasImage |-> {}, active |-> {primarySource}]

setTileLoadingActive(t) ==
  [t EXCEPT !.classes = (@ \ {"loading-image"}) \cup {"loading-active"}]

setSourceLayerImage(t, source) == [t EXCEPT !.hasImage = @ \cup {source}]

getBestSourceForTile(t, primarySource, allowFallback) ==
  LET fallbackOrder == IF allowFallback THEN PrimaryFirst(primarySource)
                       ELSE <<primarySource>>
      hits == {i \in 1..Len(fallbackOrder) : fallbackOrder[i] \in t.hasImage}
  IN IF hits = {} THEN None
     ELSE fallbackOrder[CHOOSE i \in hits : \A j \in hits : i <= j]

showSourceLayer(t, sourceToShow) ==
  [t EXCEPT !.active = IF sourceToShow = None THEN {} ELSE {sourceToShow}]

applyTitleTheme(t, artist, source, lum) ==
  [t EXCEPT !.classes = IF lum[artist][source] = "light"
                        THEN @ \cup {"light-image"} ELSE @ \ {"light-image"}]

isSourceFullyLoaded(avail, source) == Includes(avail, source)

\* revealTile without the wait for the primary source: fallback always allowed
revealTileAnyFallback(t, artist, srcs, avail, lum) ==
  LET t1 == [t EXCEPT !.classes = @ \ {"loading-image", "loading-active"}]
      bestSource == getBestSourceForTile(t1, srcs[1], TRUE)
  IN IF bestSource # None
     THEN applyTitleTheme(
            [showSourceLayer(t1, bestSource) EXCEPT !.classes = @ \cup {"image-loaded"}],
            artist, bestSource, lum)
     ELSE [t1 EXCEPT !.classes = (@ \cup {"no-image"}) \ {"light-image"}]

revealTile(t, artist, srcs, avail, lum) ==
  LET currentPrimarySource == srcs[1]
      primarySourceLoaded == isSourceFullyLoaded(avail, currentPrimarySource)
      hasPrimaryImage == currentPrimarySource \in t.hasImage
      t1 == [t EXCEPT !.classes = @ \ {"loading-image", "loading-active"}]
      bestSource == getBestSourceForTile(t1, currentPrimarySource, primarySourceLoaded)
  IN IF ~primarySourceLoaded /\ ~hasPrimaryImage THEN t
     ELSE IF bestSource # None
          THEN applyTitleTheme(
                 [showSourceLayer(t1, bestSource) EXCEPT !.classes = @ \cup {"image-loaded"}],
                 artist, bestSource, lum)
          ELSE [t1 EXCEPT !.classes = (@ \cup {"no-image"}) \ {"light-image"}]

\* the tile body of rotateToSource's loop
rotateTile(t, artist, source, lum) ==
  LET bestSource == getBestSourceForTile(t, source, TRUE)
  IN IF bestSource # None
     THEN applyTitleTheme(
            [showSourceLayer(t, bestSource)
               EXCEPT !.classes = (@ \ {"no-image"}) \cup {"image-loaded"}],
            artist, bestSource, lum)
     ELSE t

\* the tiles found for the artists of currentArtists
TilesOf(ts, arts) == DOMAIN ts \cap Range(arts)

rotateToSource(ts, arts, source, lum) ==
  [a \in DOMAIN ts |->
     IF a \in TilesOf(ts, arts) THEN rotateTile(ts[a], a, source, lum) ELSE ts[a]]

\* addAvailableSource's loop revealing a loading tile only on the primary's own
\* image, without fallback
availableTilePrimaryOnly(t, artist, currentPrimarySource, lum) ==
  LET bestSource == getBestSourceForTile(t, currentPrimarySource, FALSE)
  IN IF t.classes \cap {"loading-image", "loading-active"} # {} /\ bestSource # None
     THEN applyTitleTheme(
            [showSourceLayer(t, bestSource)
               EXCEPT !.classes = (@ \ {"loading-image", "loading-active", "no-image"})
                                    \cup {"image-loaded"}],
            artist, bestSource, lum)
     ELSE t

\* the tile body of addAvailableSource's loop
availableTile(t, artist, currentPrimarySource, lum) ==
  LET bestSource == getBestSourceForTile(t, currentPrimarySource, TRUE)
  IN IF t.classes \cap {"loading-image", "loading-active"} # {} /\ bestSource # None
     THEN applyTitleTheme(
            [showSourceLayer(t, bestSource)
               EXCEPT !.classes = (@ \ {"loading-image", "loading-active", "no-image"})
                                    \cup {"image-loaded"}],
            artist, bestSource, lum)
     ELSE t

\* handleImageSourceChange's loop looking at sourceFullyLoaded first: a source
\* still loading puts every tile back to loading
switchTileLoadingFirst(t, artist, primarySource, sourceFullyLoaded, lum) ==
  LET bestSource == getBestSourceForTile(t, primarySource, TRUE)
  IN IF ~sourceFullyLoaded
     THEN [showSourceLayer(t, None)
             EXCEPT !.classes = (@ \ {"image-loaded", "no-image"}) \cup {"loading-image"}]
     ELSE IF bestSource # None
     THEN applyTitleTheme(
            [showSourceLayer(t, bestSource)
               EXCEPT !.classes = (@ \ {"no-image", "loading-image", "loading-active"})
                                    \cup {"image-loaded"}],
            artist, bestSource, lum)
     ELSE [showSourceLayer(t, None)
             EXCEPT !.classes = (@ \ {"image-loaded", "loading-image", "loading-active",
                                       "light-image"}) \cup {"no-image"}]

\* the tile body of handleImageSourceChange's loop
switchTile(t, artist, primarySource, sourceFullyLoaded, lum) ==
  LET bestSource == getBestSourceForTile(t, primarySource, sourceFullyLoaded)
  IN IF bestSource # None
     THEN applyTitleTheme(
            [showSourceLayer(t, bestSource)
               EXCEPT !.classes = (@ \ {"no-image", "loading-image", "loading-active"})
                                    \cup {"image-loaded"}],
            artist, bestSource, lum)
     ELSE IF ~sourceFullyLoaded
     THEN [showSourceLayer(t, None)
             EXCEPT !.classes = (@ \ {"image-loaded", "no-image"}) \cup {"loading-image"}]
     ELSE [showSourceLayer(t, None)
             EXCEPT !.classes = (@ \ {"image-loaded", "loading-image", "loading-active",
                                       "light-image"}) \cup {"no-image"}]


\* --------------------------------------------------------- per-load closures
\* The closures of one loadUser call: renderArtists, fetchAllArtistImages and
\* prefetchOtherSources.
IdleLoad ==
  [phase      |-> "idle",      \* idle, listing, images, prefetch, finished, failed
   artists    |-> <<>>,
   order      |-> <<>>,        \* CONFIG.imageSources iterated by the per-artist loops
   mbPos      |-> 1,           \* mbChain: next artist
   mbBusy     |-> FALSE,       \* mbChain: getMusicBrainzData in flight
   mb         |-> [a \in ArtistNames |-> "pending"],   \* mbDataPromises
   itPos      |-> 1,           \* sourceChain of ITUNES: next artist
   itBusy     |-> FALSE,
   it         |-> [a \in ArtistNames |-> "pending"],   \* independentImagePromises
   taskSt     |-> [a \in ArtistNames |-> "off"],       \* off, await, fetch, preload, lum, done
   taskK      |-> [a \in ArtistNames |-> 1],           \* position in order
   taskTile   |-> [a \in ArtistNames |-> 0],           \* DOM of the tile prepareTileImage found
   res        |-> [a \in ArtistNames |-> [s \in Sources |-> "none"]],  \* result of each source
   pers       |-> [a \in ArtistNames |-> "off"],       \* off, await, fetch, valid, empty
   persAll    |-> "pending",   \* personalityPromise: pending, headline, done
   hlSeed     |-> 0,           \* seed read for headlineRandom
   willSetFinal |-> FALSE,     \* personalityWillSetFinalColor
   loaded     |-> {},          \* loadedArtistNames
   lastCount  |-> 0,           \* lastProgressiveColorPersonalityCount
   pfOther    |-> <<>>,        \* prefetchOtherSources: otherSources
   pfS        |-> 1,
   pfA        |-> 1,
   pfSt       |-> "step",      \* step, fetch, preload
   pfGen      |-> 0,           \* DOM of the tiles captured by prefetchOtherSources
   pfNames    |-> {},          \* their data-artist values
   mbDataMap  |-> [a \in ArtistNames |-> "none"]]

Started(L) == L.phase \in {"images", "prefetch", "finished"}
NArtists(L) == Len(L.artists)

\* The closure variables nothing will read again hold garbage: they are
\* written back to their initial values, so that two states differing only in
\* garbage are one state.  A per-artist task that returned no longer reads its
\* loop position, its tile or the artist's promises; after the join of
\* fetchAllArtistImages only the chains and prefetchOtherSources go on; after
\* prefetchOtherSources returned only the chains do.
Collect(L) ==
  LET joined == L.phase \in {"prefetch", "finished", "failed"}
      over == L.phase \in {"finished", "failed"}
      taskOver(a) == joined \/ L.taskSt[a] \in {"off", "done"}
      persOver(a) == joined \/ L.pers[a] \in {"off", "fetch", "valid", "empty"}
  IN [L EXCEPT
        !.order = IF joined THEN <<>> ELSE @,
        !.taskK = [a \in ArtistNames |-> IF taskOver(a) THEN 1 ELSE @[a]],
        !.taskTile = [a \in ArtistNames |-> IF taskOver(a) THEN 0 ELSE @[a]],
        !.res = [a \in ArtistNames |-> IF taskOver(a) THEN IdleLoad.res[a] ELSE @[a]],
        !.it = [a \in ArtistNames |-> IF taskOver(a) THEN "pending" ELSE @[a]],
        !.mb = [a \in ArtistNames |->
                  IF taskOver(a) /\ persOver(a) THEN "pending" ELSE @[a]],
        !.taskSt = IF joined THEN IdleLoad.taskSt ELSE @,
        !.pers = IF joined THEN IdleLoad.pers ELSE @,
        !.persAll = IF joined THEN "done" ELSE @,
        !.hlSeed = IF L.persAll = "headline" /\ ~joined THEN @ ELSE 0,
        !.willSetFinal = IF joined THEN FALSE ELSE @,
        !.loaded = IF joined THEN {} ELSE @,
        !.lastCount = IF joined THEN 0 ELSE @,
        !.pfOther = IF over THEN <<>> ELSE @,
        !.pfS = IF over THEN 1 ELSE @,
        !.pfA = IF over THEN 1 ELSE @,
        !.pfSt = IF over THEN "step" ELSE @,
        !.pfGen = IF over THEN 0 ELSE @,
        !.pfNames = IF over THEN {} ELSE @,
        !.mbDataMap = IF over THEN IdleLoad.mbDataMap ELSE @]

\* the closures of load g become L
SetLoad(g, L) == loads' = [loads EXCEPT ![g] = Collect(L)]

\* ------------------------------------------------------------ color updates
InitialColor == [load |-> 0, conclusive |-> FALSE, confidence |-> 0, seed |-> 0]

\* the progressive color with the resolved personality samples over the batch
\* as confidence
ProgressiveColorByResolved(g, L) ==
  [load |-> g, conclusive |-> FALSE,
   confidence |-> Cardinality({a \in Range(L.artists) : L.pers[a] \in {"valid", "empty"}}),
   seed |-> 0]

\* generateBlendedColor(progressiveRandom, moodWeights, confidence)
ProgressiveColor(g, L) ==
  [load |-> g, conclusive |-> FALSE, confidence |-> Cardinality(L.loaded), seed |-> 0]

\* generateBlendedColor(colorRandom, finalMoodWeights)
ConclusiveColor(g, seed) ==
  [load |-> g, conclusive |-> TRUE, confidence |-> 0, seed |-> seed]

\* generateBlendedColor's test typeof confidence === 'number' && confidence < 1
\* for a load of totalArtists artists: the confidence passed is
\* loadedArtistNames.length / totalArtists; 0 in a color stands for a call
\* without the argument
dampens(color, totalArtists) == color.confidence # 0 /\ color.confidence < totalArtists

\* tryProgressiveColorUpdate(force): whether it animates, and the new
\* lastProgressiveColorPersonalityCount
tryProgressiveColorUpdate(L, force) ==
  LET n == Cardinality(L.loaded)
      isLastBatch == n = NArtists(L)
      atInterval == n % 3 = 1
      shouldUpdate == force \/ atInterval \/ (isLastBatch /\ ~L.willSetFinal)
      available == Cardinality({a \in L.loaded : L.pers[a] = "valid"})
      go == /\ n # 0
            /\ shouldUpdate
            /\ available # 0
            /\ (force \/ available # L.lastCount)
  IN [update |-> go, lastCount |-> IF go THEN available ELSE L.lastCount]

\* ------------------------------------------------------------ rotation state
\* addAvailableSource scheduling the start of rotation without looking at
\* autoRotationDisabled
addAvailableSourceIgnoresDisabled(source) ==
  IF Includes(availableSources, source)
  THEN UNCHANGED <<availableSources, tiles, autoRotationStartTimeout>>
  ELSE
    LET sourceIndex == IndexOf(imageSources, source)
        before == {i \in 1..Len(availableSources) :
                     sourceIndex < IndexOf(imageSources, availableSources[i])}
        insertIndex == IF before = {} THEN Len(availableSources) + 1
                       ELSE CHOOSE i \in before : \A j \in before : i <= j
        newAvail == InsertAt(availableSources, insertIndex, source)
        currentPrimarySource == imageSources[1]
    IN /\ availableSources' = newAvail
       /\ tiles' = IF source = currentPrimarySource
                   THEN [a \in DOMAIN tiles |->
                           IF a \in TilesOf(tiles, currentArtists)
                           THEN availableTile(tiles[a], a, currentPrimarySource, luminanceCache)
                           ELSE tiles[a]]
                   ELSE tiles
       /\ autoRotationStartTimeout' =
            IF /\ Len(newAvail) >= 2
               /\ ~autoRotationInterval
               /\ ~autoRotationStartTimeout
            THEN TRUE ELSE autoRotationStartTimeout

\* addAvailableSource(source): the three variables it writes
addAvailableSource(source) ==
  IF Includes(availableSources, source)
  THEN UNCHANGED <<availableSources, tiles, autoRotationStartTimeout>>
  ELSE
    LET sourceIndex == IndexOf(imageSources, source)
        before == {i \in 1..Len(availableSources) :
                     sourceIndex < IndexOf(imageSources, availableSources[i])}
        insertIndex == IF before = {} THEN Len(availableSources) + 1
                       ELSE CHOOSE i \in before : \A j \in before : i <= j
        newAvail == InsertAt(availableSources, insertIndex, source)
        currentPrimarySource == imageSources[1]
    IN /\ availableSources' = newAvail
       /\ tiles' = IF source = currentPrimarySource
                   THEN [a \in DOMAIN tiles |->
                           IF a \in TilesOf(tiles, currentArtists)
                           THEN availableTile(tiles[a], a, currentPrimarySource, luminanceCache)
                           ELSE tiles[a]]
                   ELSE tiles
       /\ autoRotationStartTimeout' =
            IF /\ Len(newAvail) >= 2
               /\ ~autoRotationInterval
               /\ ~autoRotationStartTimeout
               /\ ~autoRotationDisabled
            THEN TRUE ELSE autoRotationStartTimeout

\* -------------------------------------------------------------- helper calls
\* No call of a helper is being looked at on its own.  The pipeline above
\* takes the helpers by their results (MbAnswers, ImageAnswers,
\* PersonalityAnswers); their own steps are further below.
IdleCall == [fn |-> "idle"]

\* ------------------------------------------------------------------- Init
Init ==
  /\ imageCache = [a \in ArtistNames |-> [s \in Sources |-> "absent"]]
  /\ mbDataCache = [a \in ArtistNames |-> "absent"]
  /\ luminanceCache = [a \in ArtistNames |-> [s \in Sources |-> "absent"]]
  /\ personalityCache = [a \in ArtistNames |-> "absent"]
  /\ imageSources = ORIGINAL_SOURCE_ORDER
  /\ currentArtists = <<>>
  /\ currentPersonalitySeed = 0
  /\ availableSources = <<>>
  /\ autoRotationInterval = FALSE
  /\ autoRotationStartTimeout = FALSE
  /\ autoRotationSourceIndex = 0
  /\ autoRotationDirection = 1
  /\ autoRotationDisabled = FALSE
  /\ showPersonalityLoadingTimeout = FALSE
  /\ leakedLoadingTimers = 0
  /\ checkedRadio = "ITUNES"
  /\ tiles = << >>
  /\ domGen = 0
  /\ personalityEl = "hidden"
  /\ headlineOf = 0
  /\ backgroundColor = InitialColor
  /\ loadCount = 0
  /\ userEvents = 0
  /\ loads = [g \in LoadIds |-> IdleLoad]
  /\ musicBrainzRateLimiter = [remaining |-> 300, rateLimited |-> FALSE]
  /\ call = IdleCall


\* ------------------------------------------------------------ continuations
\* A continuation of load g that a resolved promise has made ready.
CanMbChain(L) == Started(L) /\ ~L.mbBusy /\ L.mbPos <= NArtists(L)
CanItChain(L) == Started(L) /\ ~L.itBusy /\ L.itPos <= NArtists(L)
CanTask(L, a) ==
  /\ L.taskSt[a] = "await"
  /\ \/ L.taskK[a] > Len(L.order)
     \/ /\ L.taskK[a] <= Len(L.order)
        /\ IF sourceNeedsMbData(L.order[L.taskK[a]])
           THEN L.mb[a] # "pending" ELSE L.it[a] # "pending"
CanPers(L, a) == L.pers[a] = "await" /\ L.mb[a] # "pending"
\* Promise.all replaced by a wait for the first sample with data
CanPersAllAnyValid(L) ==
  /\ Started(L)
  /\ L.persAll = "pending"
  /\ \E a \in Range(L.artists) : L.pers[a] = "valid"

CanPersAll(L) ==
  /\ Started(L)
  /\ L.persAll = "pending"
  /\ \A a \in Range(L.artists) : L.pers[a] \in {"valid", "empty"}
CanJoin(L) ==
  /\ L.phase = "images"
  /\ L.persAll = "done"
  /\ \A a \in Range(L.artists) : L.taskSt[a] = "done"
CanPrefetch(L) == L.phase = "prefetch" /\ L.pfSt = "step"

Ready(L) ==
  \/ CanMbChain(L) \/ CanItChain(L) \/ CanPersAll(L) \/ CanJoin(L) \/ CanPrefetch(L)
  \/ \E a \in ArtistNames : CanTask(L, a) \/ CanPers(L, a)

\* The order in which ready continuations run: the personality tasks (they
\* awaited the MusicBrainz promises first), the per-artist image tasks, the
\* next links of the chains, then the joins; artists in list order.
FirstArtist(L, ready, a) ==
  \A b \in ready : IndexOf(L.artists, a) <= IndexOf(L.artists, b)
TurnPers(L, a) ==
  CanPers(L, a) /\ FirstArtist(L, {b \in Range(L.artists) : CanPers(L, b)}, a)
TurnTask(L, a) ==
  /\ CanTask(L, a) /\ FirstArtist(L, {b \in Range(L.artists) : CanTask(L, b)}, a)
  /\ \A b \in ArtistNames : ~CanPers(L, b)
NoArtistReady(L) == \A b \in ArtistNames : ~CanPers(L, b) /\ ~CanTask(L, b)
TurnMbChain(L) == CanMbChain(L) /\ NoArtistReady(L)
TurnItChain(L) == CanItChain(L) /\ NoArtistReady(L) /\ ~CanMbChain(L)
NoChainReady(L) == NoArtistReady(L) /\ ~CanMbChain(L) /\ ~CanItChain(L)
TurnPersAll(L) == CanPersAll(L) /\ NoChainReady(L)
TurnJoin(L) == CanJoin(L) /\ NoChainReady(L) /\ ~CanPersAll(L)
TurnPrefetch(L) == CanPrefetch(L) /\ NoChainReady(L) /\ ~CanPersAll(L)

\* The microtask queue is empty: the event loop takes the next task.
Quiescent == \A g \in LoadIds : ~Ready(loads[g])

\* -------------------------------------------------------------- user, timers
stopAutoRotation ==
  /\ autoRotationStartTimeout' = FALSE
  /\ autoRotationInterval' = FALSE

\* loadUser that empties availableSources but leaves the rotation timers alone
LoadUserKeepsRotating ==
  /\ Quiescent
  /\ UNCHANGED callVars
  /\ loadCount < MaxLoads
  /\ loadCount = 0 \/ userEvents < MaxUserEvents
  /\ loadCount' = loadCount + 1
  /\ userEvents' = IF loadCount = 0 THEN 0 ELSE MaxUserEvents
  /\ availableSources' = <<>>
  /\ autoRotationSourceIndex' = 0
  /\ autoRotationDirection' = 1
  /\ autoRotationDisabled' = FALSE
  /\ imageSources' = ORIGINAL_SOURCE_ORDER
  /\ checkedRadio' = "ITUNES"
  /\ showPersonalityLoadingTimeout' = TRUE
  /\ leakedLoadingTimers' = leakedLoadingTimers + IF showPersonalityLoadingTimeout THEN 1 ELSE 0
  /\ loads' = [loads EXCEPT ![loadCount + 1].phase = "listing"]
  /\ UNCHANGED <<imageCache, mbDataCache, luminanceCache, personalityCache,
                 currentArtists, currentPersonalitySeed, tiles, domGen,
                 personalityEl, headlineOf, backgroundColor,
                 autoRotationInterval, autoRotationStartTimeout>>

\* loadUser that also empties the caches
LoadUserClearsCaches ==
  /\ Quiescent
  /\ UNCHANGED callVars
  /\ loadCount < MaxLoads
  /\ loadCount = 0 \/ userEvents < MaxUserEvents
  /\ loadCount' = loadCount + 1
  /\ userEvents' = IF loadCount = 0 THEN 0 ELSE MaxUserEvents
  /\ stopAutoRotation
  /\ availableSources' = <<>>
  /\ autoRotationSourceIndex' = 0
  /\ autoRotationDirection' = 1
  /\ autoRotationDisabled' = FALSE
  /\ imageSources' = ORIGINAL_SOURCE_ORDER
  /\ checkedRadio' = "ITUNES"
  /\ showPersonalityLoadingTimeout' = TRUE
  /\ leakedLoadingTimers' = leakedLoadingTimers + IF showPersonalityLoadingTimeout THEN 1 ELSE 0
  /\ loads' = [loads EXCEPT ![loadCount + 1].phase = "listing"]
  /\ imageCache' = [a \in ArtistNames |-> [s \in Sources |-> "absent"]]
  /\ mbDataCache' = [a \in ArtistNames |-> "absent"]
  /\ UNCHANGED <<luminanceCache, personalityCache,
                 currentArtists, currentPersonalitySeed, tiles, domGen,
                 personalityEl, headlineOf, backgroundColor>>

\* loadUser(username) up to its await of the top-artists request
LoadUser ==
  /\ Quiescent
  /\ UNCHANGED callVars
  /\ loadCount < MaxLoads
  /\ loadCount = 0 \/ userEvents < MaxUserEvents
  /\ loadCount' = loadCount + 1
  /\ userEvents' = IF loadCount = 0 THEN 0 ELSE MaxUserEvents
  /\ stopAutoRotation
  /\ availableSources' = <<>>
  /\ autoRotationSourceIndex' = 0
  /\ autoRotationDirection' = 1
  /\ autoRotationDisabled' = FALSE
  /\ imageSources' = ORIGINAL_SOURCE_ORDER
  /\ checkedRadio' = "ITUNES"
  /\ showPersonalityLoadingTimeout' = TRUE
  /\ leakedLoadingTimers' = leakedLoadingTimers + IF showPersonalityLoadingTimeout THEN 1 ELSE 0
  /\ loads' = [loads EXCEPT ![loadCount + 1].phase = "listing"]
  /\ UNCHANGED <<imageCache, mbDataCache, luminanceCache, personalityCache,
                 currentArtists, currentPersonalitySeed, tiles, domGen,
                 personalityEl, headlineOf, backgroundColor>>

\* a 1 s timer of loadUser fires, showPersonalityLoading(username): the one
\* showPersonalityLoadingTimeout names, or one a later loadUser lost the id of
PersonalityLoadingTimer(leaked) ==
  /\ Quiescent
  /\ UNCHANGED callVars
  /\ IF leaked
     THEN /\ leakedLoadingTimers > 0
          /\ leakedLoadingTimers' = leakedLoadingTimers - 1
          /\ UNCHANGED showPersonalityLoadingTimeout
     ELSE /\ showPersonalityLoadingTimeout
          /\ showPersonalityLoadingTimeout' = FALSE
          /\ UNCHANGED leakedLoadingTimers
  /\ personalityEl' = "loading"
  /\ headlineOf' = 0
  /\ UNCHANGED <<imageCache, mbDataCache, luminanceCache, personalityCache, imageSources,
                 currentArtists, currentPersonalitySeed, availableSources,
                 autoRotationInterval, autoRotationStartTimeout, autoRotationSourceIndex,
                 autoRotationDirection, autoRotationDisabled, checkedRadio, tiles, domGen,
                 backgroundColor, loadCount, userEvents, loads>>

\* loadUser after the top-artists request answered data.error or an empty
\* list, or after it threw (the catch branch, reached before clearTimeout):
\* hidePersonality(), renderError()
ListFailed(g, thrown) ==
  /\ Quiescent
  /\ UNCHANGED callVars
  /\ loads[g].phase = "listing"
  /\ showPersonalityLoadingTimeout' = (thrown /\ showPersonalityLoadingTimeout)
  /\ UNCHANGED leakedLoadingTimers
  /\ personalityEl' = "hidden"
  /\ headlineOf' = 0
  /\ tiles' = << >>
  /\ domGen' = 0
  /\ SetLoad(g, [loads[g] EXCEPT !.phase = "failed"])
  /\ UNCHANGED <<imageCache, mbDataCache, luminanceCache, personalityCache, imageSources,
                 currentArtists, currentPersonalitySeed, availableSources,
                 autoRotationInterval, autoRotationStartTimeout, autoRotationSourceIndex,
                 autoRotationDirection, autoRotationDisabled, checkedRadio,
                 backgroundColor, loadCount, userEvents>>

\* the number of tiles rendered so far
Rendered == LET n[g \in 0..MaxLoads] == IF g = 0 THEN 0 ELSE n[g - 1] + Len(loads[g].artists)
            IN n[MaxLoads]

\* The state of the closures when fetchAllArtistImages(artists) reaches its
\* first await: the chains are built, every personality task has looked at
\* personalityCache, every per-artist task awaits its first source.
StartedLoad(artists) ==
  [IdleLoad EXCEPT
     !.phase = "images",
     !.artists = artists,
     !.order = imageSources,
     !.taskSt = [a \in ArtistNames |-> IF a \in Range(artists) THEN "await" ELSE "off"],
     !.pers = [a \in ArtistNames |->
                 IF a \notin Range(artists) THEN "off"
                 ELSE IF personalityCache[a] # "absent" THEN personalityCache[a]
                 ELSE "await"]]

\* loadUser after the top-artists request answered a list: showPersonalityLoading,
\* renderArtists(artists, username) and the synchronous part of fetchAllArtistImages
ListLoaded(g, artists) ==
  /\ Quiescent
  /\ UNCHANGED callVars
  /\ loads[g].phase = "listing"
  /\ Rendered + Len(artists) <= MaxRendered
  /\ showPersonalityLoadingTimeout' = FALSE
  /\ UNCHANGED leakedLoadingTimers
  /\ personalityEl' = "loading"
  /\ headlineOf' = 0
  /\ currentArtists' = artists
  /\ currentPersonalitySeed' = g
  /\ tiles' = [a \in Range(artists) |-> setTileLoadingActive(NewTile(imageSources[1]))]
  /\ domGen' = g
  /\ SetLoad(g, StartedLoad(artists))
  /\ UNCHANGED <<imageCache, mbDataCache, luminanceCache, personalityCache, imageSources,
                 availableSources, autoRotationInterval, autoRotationStartTimeout,
                 autoRotationSourceIndex, autoRotationDirection, autoRotationDisabled,
                 checkedRadio, backgroundColor, loadCount, userEvents>>

\* handleImageSourceChange: the change event of the radio of primarySource
handleImageSourceChange(primarySource) ==
  /\ Quiescent
  /\ UNCHANGED callVars
  /\ loadCount > 0
  /\ primarySource # checkedRadio
  /\ userEvents < MaxUserEvents
  /\ userEvents' = userEvents + 1
  /\ stopAutoRotation
  /\ autoRotationDisabled' = TRUE
  /\ checkedRadio' = primarySource
  /\ imageSources' = PrimaryFirst(primarySource)
  /\ LET sourceFullyLoaded == isSourceFullyLoaded(availableSources, primarySource)
     IN tiles' = [a \in DOMAIN tiles |->
                    IF a \in TilesOf(tiles, currentArtists)
                    THEN switchTile(tiles[a], a, primarySource, sourceFullyLoaded,
                                    luminanceCache)
                    ELSE tiles[a]]
  /\ UNCHANGED <<imageCache, mbDataCache, luminanceCache, personalityCache,
                 currentArtists, currentPersonalitySeed, availableSources,
                 autoRotationSourceIndex, autoRotationDirection,
                 showPersonalityLoadingTimeout, leakedLoadingTimers, domGen,
                 personalityEl, headlineOf,
                 backgroundColor, loadCount, loads>>

\* startAutoRotation(); reducedMotion is what
\* matchMedia('(prefers-reduced-motion: reduce)').matches answers
startAutoRotation(reducedMotion) ==
  IF autoRotationInterval \/ Len(availableSources) < 2 \/ reducedMotion
  THEN UNCHANGED <<autoRotationInterval, autoRotationSourceIndex, autoRotationDirection>>
  ELSE /\ autoRotationSourceIndex' = 0
       /\ autoRotationDirection' = 1
       /\ autoRotationInterval' = TRUE

\* the 2 s timer set by addAvailableSource
RotationStartTimer(reducedMotion) ==
  /\ Quiescent
  /\ UNCHANGED callVars
  /\ autoRotationStartTimeout
  /\ autoRotationStartTimeout' = FALSE
  /\ startAutoRotation(reducedMotion)
  /\ UNCHANGED <<imageCache, mbDataCache, luminanceCache, personalityCache, imageSources,
                 currentArtists, currentPersonalitySeed, availableSources,
                 autoRotationDisabled, showPersonalityLoadingTimeout,
                 leakedLoadingTimers, checkedRadio, tiles, domGen, personalityEl, headlineOf, backgroundColor,
                 loadCount, userEvents, loads>>

\* the interval callback going round: after the last provider the first
RotationTickWraps ==
  /\ Quiescent
  /\ UNCHANGED callVars
  /\ autoRotationInterval
  /\ LET index == (autoRotationSourceIndex + 1) % Len(availableSources)
         targetSource == availableSources[index + 1]
     IN /\ autoRotationSourceIndex' = index
        /\ UNCHANGED autoRotationDirection
        /\ checkedRadio' = targetSource
        /\ tiles' = IF currentArtists = <<>> THEN tiles
                    ELSE rotateToSource(tiles, currentArtists, targetSource, luminanceCache)
  /\ UNCHANGED <<imageCache, mbDataCache, luminanceCache, personalityCache, imageSources,
                 currentArtists, currentPersonalitySeed, availableSources,
                 autoRotationInterval, autoRotationStartTimeout, autoRotationDisabled,
                 showPersonalityLoadingTimeout, leakedLoadingTimers, domGen,
                 personalityEl, headlineOf,
                 backgroundColor, loadCount, userEvents, loads>>

\* the callback of the 2.5 s interval set by startAutoRotation
RotationTick ==
  /\ Quiescent
  /\ UNCHANGED callVars
  /\ autoRotationInterval
  /\ LET index == autoRotationSourceIndex + autoRotationDirection
         targetSource == availableSources[index + 1]
     IN /\ autoRotationSourceIndex' = index
        /\ autoRotationDirection' =
             IF index >= Len(availableSources) - 1 THEN -1
             ELSE IF index <= 0 THEN 1
             ELSE autoRotationDirection
        /\ checkedRadio' = targetSource
        /\ tiles' = IF currentArtists = <<>> THEN tiles
                    ELSE rotateToSource(tiles, currentArtists, targetSource, luminanceCache)
  /\ UNCHANGED <<imageCache, mbDataCache, luminanceCache, personalityCache, imageSources,
                 currentArtists, currentPersonalitySeed, availableSources,
                 autoRotationInterval, autoRotationStartTimeout, autoRotationDisabled,
                 showPersonalityLoadingTimeout, leakedLoadingTimers, domGen,
                 personalityEl, headlineOf,
                 backgroundColor, loadCount, userEvents, loads>>


\* ------------------------------------------------------------ image pipeline
\* what no step of fetchAllArtistImages or prefetchOtherSources writes
sessionVars == <<imageSources, currentArtists, currentPersonalitySeed,
                 autoRotationInterval, autoRotationSourceIndex, autoRotationDirection,
                 autoRotationDisabled, showPersonalityLoadingTimeout,
                 leakedLoadingTimers, checkedRadio, domGen, loadCount, userEvents,
                 callVars>>
displayVars == <<availableSources, autoRotationStartTimeout, personalityEl, headlineOf>>

\* mbChain: the next link runs; a cached entry resolves the artist's promise
\* at once, otherwise getMusicBrainzData starts
MbChainStep(g) ==
  LET L == loads[g]
      a == L.artists[L.mbPos]
  IN /\ TurnMbChain(L)
     /\ SetLoad(g,
                    IF mbDataCache[a] # "absent"
                    THEN [L EXCEPT !.mb[a] = mbDataCache[a], !.mbPos = @ + 1]
                    ELSE [L EXCEPT !.mbBusy = TRUE])
     /\ UNCHANGED <<imageCache, mbDataCache, luminanceCache, personalityCache, tiles,
                    backgroundColor, sessionVars, displayVars>>

\* getMusicBrainzData returns: no mbid, an mbid, or an mbid and a Discogs id
MbResponse(g, data) ==
  LET L == loads[g]
      a == L.artists[L.mbPos]
  IN /\ Quiescent
     /\ L.mbBusy
     /\ data \in MbAnswers(a)
     /\ mbDataCache' = [mbDataCache EXCEPT ![a] = data]
     /\ SetLoad(g,
                    [L EXCEPT !.mb[a] = data, !.mbPos = @ + 1, !.mbBusy = FALSE])
     /\ UNCHANGED <<imageCache, luminanceCache, personalityCache, tiles,
                    backgroundColor, sessionVars, displayVars>>

\* sourceChain of ITUNES whose links do not wait for fetchImageForSource: the
\* request of the artist starts and the chain moves on to the next artist
ItChainStepParallel(g) ==
  LET L == loads[g]
      a == L.artists[L.itPos]
  IN /\ TurnItChain(L)
     /\ SetLoad(g,
                    IF imageCache[a]["ITUNES"] # "absent"
                    THEN [L EXCEPT !.it[a] = imageCache[a]["ITUNES"], !.itPos = @ + 1]
                    ELSE [L EXCEPT !.itBusy = TRUE, !.itPos = @ + 1])
     /\ UNCHANGED <<imageCache, mbDataCache, luminanceCache, personalityCache, tiles,
                    backgroundColor, sessionVars, displayVars>>

\* sourceChain of ITUNES: fetchImageForSource(artistName, 'ITUNES', {})
ItChainStep(g) ==
  LET L == loads[g]
      a == L.artists[L.itPos]
  IN /\ TurnItChain(L)
     /\ SetLoad(g,
                    IF imageCache[a]["ITUNES"] # "absent"
                    THEN [L EXCEPT !.it[a] = imageCache[a]["ITUNES"], !.itPos = @ + 1]
                    ELSE [L EXCEPT !.itBusy = TRUE])
     /\ UNCHANGED <<imageCache, mbDataCache, luminanceCache, personalityCache, tiles,
                    backgroundColor, sessionVars, displayVars>>

\* fetchiTunesImage returns; fetchImageForSource caches the result
ItResponse(g, fetchedUrl) ==
  LET L == loads[g]
      a == L.artists[L.itPos]
  IN /\ Quiescent
     /\ L.itBusy
     /\ fetchedUrl \in ImageAnswers(a, "ITUNES")
     /\ imageCache' = [imageCache EXCEPT ![a]["ITUNES"] = fetchedUrl]
     /\ SetLoad(g,
                    [L EXCEPT !.it[a] = fetchedUrl, !.itPos = @ + 1, !.itBusy = FALSE])
     /\ UNCHANGED <<mbDataCache, luminanceCache, personalityCache, tiles,
                    backgroundColor, sessionVars, displayVars>>

\* revealRow([tileResult]), loadedArtistNames.push, tryProgressiveColorUpdate()
\* for the tile prepareTileImage found; ts and lum are contentEl's tiles and
\* the luminance cache as prepareTileImage left them
RevealRow(g, L, a, ts, lum) ==
  LET L2 == [L EXCEPT !.loaded = @ \cup {a}, !.taskSt[a] = "done"]
      upd == tryProgressiveColorUpdate(L2, FALSE)
  IN /\ tiles' = IF L.taskTile[a] = domGen
                 THEN [ts EXCEPT ![a] = revealTile(ts[a], a, imageSources,
                                                   availableSources, lum)]
                 ELSE ts
     /\ SetLoad(g, [L2 EXCEPT !.lastCount = upd.lastCount])
     /\ backgroundColor' = IF upd.update THEN ProgressiveColor(g, L2) ELSE backgroundColor

\* the per-artist loop going on to the next source after a URL as it does
\* after null, the last source excepted
TaskResultKeepsAsking(g, a, imageUrl) ==
  LET L == [loads[g] EXCEPT !.res[a][loads[g].order[loads[g].taskK[a]]] = imageUrl]
  IN /\ SetLoad(g,
                    IF imageUrl = "url" /\ L.taskK[a] = Len(L.order)
                    THEN IF a \in DOMAIN tiles
                         THEN [L EXCEPT !.taskSt[a] = "preload", !.taskTile[a] = domGen]
                         ELSE [L EXCEPT !.taskSt[a] = "done"]
                    ELSE [L EXCEPT !.taskSt[a] = "await", !.taskK[a] = @ + 1])
     /\ UNCHANGED <<tiles, backgroundColor>>

\* the per-artist task got the result of source order[k]: a URL ends the loop
\* and prepareTileImage starts preloading it, null moves on to the next source
TaskResult(g, a, imageUrl) ==
  LET L == [loads[g] EXCEPT !.res[a][loads[g].order[loads[g].taskK[a]]] = imageUrl]
  IN /\ SetLoad(g,
                    IF imageUrl = "url"
                    THEN IF a \in DOMAIN tiles
                         THEN [L EXCEPT !.taskSt[a] = "preload", !.taskTile[a] = domGen]
                         ELSE [L EXCEPT !.taskSt[a] = "done"]
                    ELSE [L EXCEPT !.taskSt[a] = "await", !.taskK[a] = @ + 1])
     /\ UNCHANGED <<tiles, backgroundColor>>

\* whether fetchImageForSource has the id the source needs
HasIdFor(source, data) ==
  CASE source = "DISCOGS" -> data = "both"
    [] source = "THE_AUDIO_DB" -> data \in {"mbid", "both"}
    [] OTHER -> TRUE

\* one iteration of the per-artist loop over CONFIG.imageSources, or, past
\* the last source, bestResult = { source: CONFIG.imageSources[0], imageUrl: null }
TaskStep(g, a) ==
  LET L == loads[g]
      k == L.taskK[a]
      source == L.order[k]
  IN /\ TurnTask(L, a)
     /\ IF k > Len(L.order)
        THEN /\ IF a \in DOMAIN tiles
                THEN RevealRow(g, [L EXCEPT !.taskTile[a] = domGen], a, tiles, luminanceCache)
                ELSE /\ SetLoad(g, [L EXCEPT !.taskSt[a] = "done"])
                     /\ UNCHANGED <<tiles, backgroundColor>>
             /\ UNCHANGED imageCache
        ELSE IF source = "ITUNES"
        THEN TaskResult(g, a, L.it[a]) /\ UNCHANGED imageCache
        ELSE IF imageCache[a][source] # "absent"
        THEN TaskResult(g, a, imageCache[a][source]) /\ UNCHANGED imageCache
        ELSE IF HasIdFor(source, L.mb[a])
        THEN /\ SetLoad(g, [L EXCEPT !.taskSt[a] = "fetch"])
             /\ UNCHANGED <<imageCache, tiles, backgroundColor>>
        ELSE /\ imageCache' = [imageCache EXCEPT ![a][source] = "null"]
             /\ TaskResult(g, a, "null")
     /\ UNCHANGED <<mbDataCache, luminanceCache, personalityCache, sessionVars, displayVars>>

\* fetchDiscogsImageById or fetchAudioDBImage returns to fetchImageForSource
TaskFetchResponse(g, a, fetchedUrl) ==
  LET L == loads[g]
      source == L.order[L.taskK[a]]
  IN /\ Quiescent
     /\ L.taskSt[a] = "fetch"
     /\ fetchedUrl \in ImageAnswers(a, source)
     /\ imageCache' = [imageCache EXCEPT ![a][source] = fetchedUrl]
     /\ TaskResult(g, a, fetchedUrl)
     /\ UNCHANGED <<mbDataCache, luminanceCache, personalityCache, sessionVars, displayVars>>

\* preloadImage settles in prepareTileImage: on load setSourceLayerImage, then
\* cacheTileLuminance (a CORS-mode load for ITUNES, false for the others)
TaskPreloadDone(g, a, ok) ==
  LET L == loads[g]
      source == L.order[L.taskK[a]]
      ts == IF L.taskTile[a] = domGen
            THEN [tiles EXCEPT ![a] = setSourceLayerImage(tiles[a], source)]
            ELSE tiles
      dark == [luminanceCache EXCEPT ![a][source] = "dark"]
  IN /\ Quiescent
     /\ L.taskSt[a] = "preload"
     /\ ok \in PreloadAnswers(a, source)
     /\ IF ~ok
        THEN RevealRow(g, L, a, tiles, luminanceCache) /\ UNCHANGED luminanceCache
        ELSE IF luminanceCache[a][source] # "absent"
        THEN RevealRow(g, L, a, ts, luminanceCache) /\ UNCHANGED luminanceCache
        ELSE IF source = "ITUNES"
        THEN /\ SetLoad(g, [L EXCEPT !.taskSt[a] = "lum"])
             /\ tiles' = ts
             /\ UNCHANGED <<luminanceCache, backgroundColor>>
        ELSE /\ luminanceCache' = dark
             /\ RevealRow(g, L, a, ts, dark)
     /\ UNCHANGED <<imageCache, mbDataCache, personalityCache, sessionVars, displayVars>>

\* loadImageForCanvas settles in cacheTileLuminance
TaskLumDone(g, a) ==
  LET L == loads[g]
      lum == [luminanceCache EXCEPT ![a]["ITUNES"] =
                IF a \in LightArtwork THEN "light" ELSE "dark"]
  IN /\ Quiescent
     /\ L.taskSt[a] = "lum"
     /\ luminanceCache' = lum
     /\ RevealRow(g, L, a, tiles, lum)
     /\ UNCHANGED <<imageCache, mbDataCache, personalityCache, sessionVars, displayVars>>


\* ------------------------------------------------------ personality pipeline
\* a personality task resolved: resolvedPersonalityMap[name] = data, then the
\* pPromise.then callback tryProgressiveColorUpdate(true)
PersResolved(g, L, a, data) ==
  LET L2 == [L EXCEPT !.pers[a] = data]
      upd == tryProgressiveColorUpdate(L2, TRUE)
  IN /\ SetLoad(g, [L2 EXCEPT !.lastCount = upd.lastCount])
     /\ backgroundColor' = IF upd.update THEN ProgressiveColor(g, L2) ELSE backgroundColor

\* the artist's MusicBrainz promise resolved: fetchAudioDBData(mbid) starts,
\* or without an mbid the sample is empty
PersStep(g, a) ==
  LET L == loads[g]
  IN /\ TurnPers(L, a)
     /\ IF L.mb[a] \in {"mbid", "both"}
        THEN /\ SetLoad(g, [L EXCEPT !.pers[a] = "fetch"])
             /\ UNCHANGED backgroundColor
        ELSE PersResolved(g, L, a, "empty")
     /\ UNCHANGED <<imageCache, mbDataCache, luminanceCache, personalityCache, tiles,
                    sessionVars, displayVars>>

\* fetchAudioDBData returns: a sample with a genre, style or mood, or without
PersResponse(g, a, data) ==
  LET L == loads[g]
  IN /\ Quiescent
     /\ L.pers[a] = "fetch"
     /\ data \in PersonalityAnswers(a)
     /\ personalityCache' = [personalityCache EXCEPT ![a] = data]
     /\ PersResolved(g, L, a, data)
     /\ UNCHANGED <<imageCache, mbDataCache, luminanceCache, tiles,
                    sessionVars, displayVars>>

\* Promise.all(personalityDataPromises).then: with a valid sample the headline
\* request is sent, without one personalityPromise resolves
PersAll(g) ==
  LET L == loads[g]
  IN /\ TurnPersAll(L)
     /\ SetLoad(g,
                    IF \E a \in Range(L.artists) : L.pers[a] = "valid"
                    THEN [L EXCEPT !.persAll = "headline", !.hlSeed = currentPersonalitySeed]
                    ELSE [L EXCEPT !.persAll = "done"])
     /\ UNCHANGED <<imageCache, mbDataCache, luminanceCache, personalityCache, tiles,
                    backgroundColor, sessionVars, displayVars>>

\* analyzePersonality returns (the server's headline or the fallback):
\* displayPersonality, then the conclusive color
HeadlineResponse(g) ==
  LET L == loads[g]
  IN /\ Quiescent
     /\ L.persAll = "headline"
     /\ personalityEl' = "headline"
     /\ headlineOf' = g
     /\ backgroundColor' = ConclusiveColor(g, currentPersonalitySeed)
     /\ SetLoad(g, [L EXCEPT !.persAll = "done", !.willSetFinal = TRUE])
     /\ UNCHANGED <<imageCache, mbDataCache, luminanceCache, personalityCache, tiles,
                    availableSources, autoRotationStartTimeout, sessionVars>>

\* ------------------------------------------------------- completion, prefetch
\* fetchAllArtistImages(artists).then: addAvailableSource(CONFIG.imageSources[0])
\* and prefetchOtherSources(artists) up to its first fetch
Join(g) ==
  LET L == loads[g]
  IN /\ TurnJoin(L)
     /\ addAvailableSource(imageSources[1])
     /\ SetLoad(g,
                    [L EXCEPT !.phase = "prefetch",
                              !.pfOther = Filter(ORIGINAL_SOURCE_ORDER, imageSources[1]),
                              !.pfS = 1, !.pfA = 1, !.pfSt = "step",
                              !.pfGen = domGen,
                              !.pfNames = DOMAIN tiles,
                              !.mbDataMap = [a \in ArtistNames |->
                                               IF mbDataCache[a] = "absent" THEN "none"
                                               ELSE mbDataCache[a]]])
     /\ UNCHANGED <<imageCache, mbDataCache, luminanceCache, personalityCache,
                    backgroundColor, personalityEl, headlineOf, sessionVars>>

\* prefetchOtherSources got the image of (artist, source): a URL whose tile is
\* among the captured tiles is preloaded, otherwise the next artist is taken
PrefetchResult(L, a, imageUrl) ==
  IF imageUrl = "url" /\ a \in L.pfNames
  THEN [L EXCEPT !.pfSt = "preload"]
  ELSE [L EXCEPT !.pfSt = "step", !.pfA = @ + 1]

\* one iteration of prefetchOtherSources: the next artist of the source, or
\* after the last artist addAvailableSource(source)
PrefetchStep(g) ==
  LET L == loads[g]
      source == L.pfOther[L.pfS]
      a == L.artists[L.pfA]
  IN /\ TurnPrefetch(L)
     /\ IF L.pfA > NArtists(L)
        THEN /\ addAvailableSource(source)
             /\ SetLoad(g,
                            IF L.pfS = Len(L.pfOther)
                            THEN [L EXCEPT !.phase = "finished"]
                            ELSE [L EXCEPT !.pfS = @ + 1, !.pfA = 1])
             /\ UNCHANGED imageCache
        ELSE /\ IF imageCache[a][source] # "absent"
                THEN /\ SetLoad(g,
                                    PrefetchResult(L, a, imageCache[a][source]))
                     /\ UNCHANGED imageCache
                ELSE IF HasIdFor(source, L.mbDataMap[a])
                THEN /\ SetLoad(g, [L EXCEPT !.pfSt = "fetch"])
                     /\ UNCHANGED imageCache
                ELSE /\ imageCache' = [imageCache EXCEPT ![a][source] = "null"]
                     /\ SetLoad(g, PrefetchResult(L, a, "null"))
             /\ UNCHANGED <<availableSources, tiles, autoRotationStartTimeout>>
     /\ UNCHANGED <<mbDataCache, luminanceCache, personalityCache, backgroundColor,
                    personalityEl, headlineOf, sessionVars>>

\* the provider returns to fetchImageForSource called by prefetchOtherSources
PrefetchResponse(g, fetchedUrl) ==
  LET L == loads[g]
      source == L.pfOther[L.pfS]
      a == L.artists[L.pfA]
  IN /\ Quiescent
     /\ L.phase = "prefetch"
     /\ L.pfSt = "fetch"
     /\ fetchedUrl \in ImageAnswers(a, source)
     /\ imageCache' = [imageCache EXCEPT ![a][source] = fetchedUrl]
     /\ SetLoad(g, PrefetchResult(L, a, fetchedUrl))
     /\ UNCHANGED <<mbDataCache, luminanceCache, personalityCache, tiles, backgroundColor,
                    sessionVars, displayVars>>

\* preloadImage settles in prefetchOtherSources: setSourceLayerImage and the
\* luminance of the layer (cacheTileLuminance is not awaited)
PrefetchPreloadDone(g, ok) ==
  LET L == loads[g]
      source == L.pfOther[L.pfS]
      a == L.artists[L.pfA]
  IN /\ Quiescent
     /\ L.phase = "prefetch"
     /\ L.pfSt = "preload"
     /\ ok \in PreloadAnswers(a, source)
     /\ tiles' = IF ok /\ L.pfGen = domGen
                 THEN [tiles EXCEPT ![a] = setSourceLayerImage(tiles[a], source)]
                 ELSE tiles
     /\ luminanceCache' =
          IF ok /\ luminanceCache[a][source] = "absent"
          THEN [luminanceCache EXCEPT ![a][source] =
                  IF source = "ITUNES" /\ a \in LightArtwork THEN "light" ELSE "dark"]
          ELSE luminanceCache
     /\ SetLoad(g, [L EXCEPT !.pfSt = "step", !.pfA = @ + 1])
     /\ UNCHANGED <<imageCache, mbDataCache, personalityCache, backgroundColor,
                    sessionVars, displayVars>>

\* ---------------------------------------------------------------------- Next
\* what happens without the user: responses, image loads, timers, continuations
Work ==
  \/ \E leaked \in BOOLEAN : PersonalityLoadingTimer(leaked)
  \/ \E g \in LoadIds, thrown \in BOOLEAN : ListFailed(g, thrown)
  \/ \E g \in LoadIds, artists \in Batches : ListLoaded(g, artists)
  \/ \E reducedMotion \in BOOLEAN : RotationStartTimer(reducedMotion)
  \/ RotationTick
  \/ \E g \in LoadIds : MbChainStep(g)
  \/ \E g \in LoadIds, data \in {"none", "mbid", "both"} : MbResponse(g, data)
  \/ \E g \in LoadIds : ItChainStep(g)
  \/ \E g \in LoadIds, url \in {"url", "null"} : ItResponse(g, url)
  \/ \E g \in LoadIds, a \in ArtistNames : TaskStep(g, a)
  \/ \E g \in LoadIds, a \in ArtistNames, url \in {"url", "null"} : TaskFetchResponse(g, a, url)
  \/ \E g \in LoadIds, a \in ArtistNames, ok \in BOOLEAN : TaskPreloadDone(g, a, ok)
  \/ \E g \in LoadIds, a \in ArtistNames : TaskLumDone(g, a)
  \/ \E g \in LoadIds, a \in ArtistNames : PersStep(g, a)
  \/ \E g \in LoadIds, a \in ArtistNames, data \in {"valid", "empty"} : PersResponse(g, a, data)
  \/ \E g \in LoadIds : PersAll(g)
  \/ \E g \in LoadIds : HeadlineResponse(g)
  \/ \E g \in LoadIds : Join(g)
  \/ \E g \in LoadIds : PrefetchStep(g)
  \/ \E g \in LoadIds, url \in {"url", "null"} : PrefetchResponse(g, url)
  \/ \E g \in LoadIds, ok \in BOOLEAN : PrefetchPreloadDone(g, ok)

Next ==
  \/ LoadUser
  \/ \E source \in Sources : handleImageSourceChange(source)
  \/ Work

Spec == Init /\ [][Next]_vars

\* Every pending request is answered, every image load and timer event is
\* delivered and every ready continuation runs; the user owes no event.
Completion ==
  /\ WF_vars(\E leaked \in BOOLEAN : PersonalityLoadingTimer(leaked))
  /\ WF_vars(\E g \in LoadIds :
               \/ \E thrown \in BOOLEAN : ListFailed(g, thrown)
               \/ \E artists \in Batches : ListLoaded(g, artists))
  /\ WF_vars(\E reducedMotion \in BOOLEAN : RotationStartTimer(reducedMotion))
  /\ WF_vars(RotationTick)
  /\ WF_vars(\E g \in LoadIds : MbChainStep(g) \/ ItChainStep(g))
  /\ WF_vars(\E g \in LoadIds, data \in {"none", "mbid", "both"} : MbResponse(g, data))
  /\ WF_vars(\E g \in LoadIds, url \in {"url", "null"} : ItResponse(g, url))
  /\ WF_vars(\E g \in LoadIds, a \in ArtistNames : TaskStep(g, a) \/ PersStep(g, a))
  /\ WF_vars(\E g \in LoadIds, a \in ArtistNames, url \in {"url", "null"} :
               TaskFetchResponse(g, a, url))
  /\ WF_vars(\E g \in LoadIds, a \in ArtistNames, ok \in BOOLEAN : TaskPreloadDone(g, a, ok))
  /\ WF_vars(\E g \in LoadIds, a \in ArtistNames : TaskLumDone(g, a))
  /\ WF_vars(\E g \in LoadIds, a \in ArtistNames, data \in {"valid", "empty"} :
               PersResponse(g, a, data))
  /\ WF_vars(\E g \in LoadIds : PersAll(g) \/ Join(g) \/ PrefetchStep(g))
  /\ WF_vars(\E g \in LoadIds : HeadlineResponse(g))
  /\ WF_vars(\E g \in LoadIds, url \in {"url", "null"} : PrefetchResponse(g, url))
  /\ WF_vars(\E g \in LoadIds, ok \in BOOLEAN : PrefetchPreloadDone(g, ok))

\* init's load left alone by the user, every pending completion delivered
NextUnattended ==
  \/ loadCount = 0 /\ LoadUser
  \/ Work

UnattendedSpec == Init /\ [][NextUnattended]_vars /\ Completion

\* ------------------------------------------------------------------ display
\* The display states of a tile (the reveal engine's Loading, ImageReady and
\* NoImage) and the source layer it shows.
Loading(t) == t.classes \cap {"loading-image", "loading-active"} # {}
ImageReady(t) == "image-loaded" \in t.classes
NoImage(t) == "no-image" \in t.classes
Shows(t, source) == ImageReady(t) /\ source \in t.active
ShowsFallback(t, primarySource) ==
  ImageReady(t) /\ t.active # {} /\ primarySource \notin t.active

\* The kinds of step, read off the variables only that kind of step changes.
IsSelection == userEvents' # userEvents /\ loadCount' = loadCount
IsRotationTick ==
  /\ autoRotationInterval /\ autoRotationInterval'
  /\ autoRotationSourceIndex' # autoRotationSourceIndex

\* ------------------------------------------------------------------- claims
\* C1: revealTile, addAvailableSource and handleImageSourceChange never make a
\* tile display a fallback provider's image while the primary provider
\* CONFIG.imageSources[0] is not in availableSources.  Every step other than
\* a rotation tick leaves a tile that shows a fallback while the primary is
\* not available showing what it showed before the step, and a provider
\* selection leaves no such tile at all.
C1_NoEarlyFallback ==
  [][IsRotationTick \/
     \A a \in DOMAIN tiles' :
        (/\ ShowsFallback(tiles'[a], imageSources'[1])
         /\ ~Includes(availableSources', imageSources'[1]))
        => /\ ~IsSelection
           /\ a \in DOMAIN tiles
           /\ ImageReady(tiles[a])
           /\ tiles'[a].active = tiles[a].active]_vars

\* C1 witness: a tile holds a fallback image only, the primary is not
\* available, revealTile has left it loading-active and a provider selection
\* has put it back to loading-image.
C1_Witness ==
  \E a \in DOMAIN tiles :
     /\ tiles[a].hasImage # {}
     /\ imageSources[1] \notin tiles[a].hasImage
     /\ ~Includes(availableSources, imageSources[1])
     /\ {"loading-image", "loading-active"} \subseteq tiles[a].classes
     /\ ~ImageReady(tiles[a])

\* C2: while imageCache holds null for (a, p), a's tile is never image-loaded
\* with p's layer active.
C2_NullNeverShown ==
  \A a \in DOMAIN tiles : \A p \in Sources :
     imageCache[a][p] = "null" => ~Shows(tiles[a], p)

\* C3: a provider is in availableSources only if imageCache has an entry for
\* it for every artist of currentArtists.
C3_AvailableAttempted ==
  \A p \in Range(availableSources) : \A a \in Range(currentArtists) :
     imageCache[a][p] # "absent"

\* every provider returned null for the artist
AllNull(a) == \A p \in Sources : imageCache[a][p] = "null"

\* C4: once the primary provider is in availableSources no tile of the batch
\* is Loading, and a tile for which every provider returned null is NoImage.
C4_NoTileLeftLoading ==
  Includes(availableSources, imageSources[1]) =>
    \A a \in TilesOf(tiles, currentArtists) :
       /\ ~Loading(tiles[a])
       /\ AllNull(a) => NoImage(tiles[a])

\* Discogs has an image for the artist: MusicBrainz resolves a Discogs id,
\* Discogs answers a URL and the URL loads.
DiscogsHasImage(a) ==
  /\ MbAnswers(a) = {"both"}
  /\ ImageAnswers(a, "DISCOGS") = {"url"}
  /\ PreloadAnswers(a, "DISCOGS") = {TRUE}

C6_SelectionKeepsLoadedTile ==
  [][IsSelection =>
       /\ \A a \in DOMAIN tiles :
             checkedRadio' \in tiles[a].hasImage =>
               /\ Shows(tiles'[a], checkedRadio')
               /\ tiles'[a].active = {checkedRadio'}
               /\ ~Loading(tiles'[a])
               /\ ~NoImage(tiles'[a])
       /\ UNCHANGED <<loads, imageCache, mbDataCache>>]_vars

\* C6 witness: the user selected another provider and then ITUNES again while
\* ITUNES was not fully loaded; the tile that holds the iTunes image shows it.
C6_Witness ==
  /\ userEvents = 2 /\ loadCount = 1
  /\ checkedRadio = "ITUNES" /\ autoRotationDisabled
  /\ ~Includes(availableSources, "ITUNES")
  /\ \E a \in DOMAIN tiles : Shows(tiles[a], "ITUNES") /\ ~Loading(tiles[a])

\* C7: the result fetchImageForSource returned for (artist, ITUNES), held by
\* the artist's promise of the iTunes chain, is the imageCache entry, so that
\* every later call for the key returns that same result from the cache.
C7_ReturnedResultStaysCached ==
  \A g \in LoadIds : \A a \in Range(loads[g].artists) :
     loads[g].it[a] # "pending" => imageCache[a]["ITUNES"] = loads[g].it[a]

\* C8: while the rotation interval is installed availableSources holds at
\* least two providers.
C8_RotationNeedsTwoSources ==
  autoRotationInterval => Len(availableSources) >= 2

\* C8 witness: the interval is installed
C8_Witness == autoRotationInterval /\ Len(availableSources) = 2

\* C9: from a provider selection until the next loadUser, that is while
\* autoRotationDisabled is set, neither the rotation interval nor the start
\* timer exists, so that no rotation tick can occur.
C9_NoRotationAfterSelection ==
  autoRotationDisabled => ~autoRotationInterval /\ ~autoRotationStartTimeout

\* C9 witness: the user has selected a provider and sources have become
\* available since
C9_Witness ==
  /\ autoRotationDisabled
  /\ Len(availableSources) = 3
  /\ ~autoRotationInterval /\ ~autoRotationStartTimeout

\* C10: once loadUser has been called again, a completion of the work a
\* previous call started (its image fetches, its completion callback, its
\* prefetch, its personality analysis) changes only the caches: not
\* availableSources, the rotation timers, the personality element or the
\* background color, and not the tiles a later call has rendered.
C10_StaleWorkOnlyCaches ==
  [][\A g \in LoadIds :
       (g < loadCount /\ Started(loads[g]) /\ loads'[g] # loads[g])
       => /\ UNCHANGED <<availableSources, autoRotationInterval, autoRotationStartTimeout,
                         personalityEl, headlineOf, backgroundColor>>
          /\ domGen > g => UNCHANGED tiles]_vars

\* the artists a chain has moved past have an entry in the cache it fills
ChainDone(L, pos, entries) == \A k \in 1..(pos - 1) : entries[L.artists[k]] # "absent"
ItEntries == [a \in ArtistNames |-> imageCache[a]["ITUNES"]]

\* C11: within one load the MusicBrainz chain and the iTunes chain each take
\* the artists one at a time in list order: a request starts only when no
\* request of the chain is in flight and every earlier artist of the list has
\* its result, it is the request of the next artist of the list, and the
\* chain moves on by one artist, only when that artist's result is there.
\* The two chains of a load may have requests in flight at the same time.
C11_ChainsOneAtATime ==
  [][\A g \in LoadIds :
       LET L == loads[g]
           M == loads'[g]
       IN (Started(L) /\ Started(M)) =>
            /\ (M.mbBusy /\ ~L.mbBusy) =>
                  M.mbPos = L.mbPos /\ ChainDone(L, L.mbPos, mbDataCache)
            /\ (M.itBusy /\ ~L.itBusy) =>
                  M.itPos = L.itPos /\ ChainDone(L, L.itPos, ItEntries)
            /\ M.mbPos # L.mbPos =>
                  /\ M.mbPos = L.mbPos + 1 /\ ~M.mbBusy
                  /\ mbDataCache'[L.artists[L.mbPos]] # "absent"
            /\ M.itPos # L.itPos =>
                  /\ M.itPos = L.itPos + 1 /\ ~M.itBusy
                  /\ imageCache'[L.artists[L.itPos]]["ITUNES"] # "absent"]_vars

\* C11 witness: the MusicBrainz request of the first artist and the iTunes
\* request of the second artist of one load are in flight together
C11_Witness ==
  \E g \in LoadIds :
     /\ Started(loads[g]) /\ NArtists(loads[g]) = 2
     /\ loads[g].mbBusy /\ loads[g].mbPos = 1
     /\ loads[g].itBusy /\ loads[g].itPos = 2

\* the per-artist task of the artist is running in the closures L
TaskRunning(L, a) == L.phase = "images" /\ L.taskSt[a] \notin {"off", "done"}

\* C12: in the pass of a load the per-artist task takes the providers in the
\* order configured when the pass started and stops at the first whose fetch
\* returned a URL: every provider before it returned null, no provider after
\* it has been asked, and the layer the pass sets on the tile is that
\* provider's.  When every provider returned null the pass sets no layer.
C12_FirstUrlWins ==
  [][\A g \in LoadIds : \A a \in ArtistNames :
       LET L == loads[g]
           M == loads'[g]
           k == L.taskK[a]
           won == L.taskSt[a] \in {"preload", "lum"}
           added == IF a \in DOMAIN tiles /\ a \in DOMAIN tiles'
                    THEN tiles'[a].hasImage \ tiles[a].hasImage ELSE {}
       IN TaskRunning(L, a) =>
            /\ \A j \in 1..Len(L.order) :
                  /\ j < k => L.res[a][L.order[j]] = "null"
                  /\ j > k => L.res[a][L.order[j]] = "none"
                  /\ j = k => L.res[a][L.order[j]] = IF won THEN "url" ELSE "none"
            /\ (M.taskSt[a] # L.taskSt[a] /\ added # {}) =>
                  won /\ added = {L.order[k]}
            /\ (M.taskSt[a] # L.taskSt[a] /\ k > Len(L.order)) =>
                  added = {} /\ ~TaskRunning(M, a)]_vars

\* C12 witness: iTunes returned null for the artist, Discogs a URL that is
\* being preloaded, and TheAudioDB has not been asked
C12_Witness ==
  \E g \in LoadIds : \E a \in ArtistNames :
     /\ TaskRunning(loads[g], a)
     /\ loads[g].order = ORIGINAL_SOURCE_ORDER
     /\ loads[g].taskSt[a] = "preload" /\ loads[g].taskK[a] = 2
     /\ loads[g].res[a]["ITUNES"] = "null"
     /\ loads[g].res[a]["DISCOGS"] = "url"
     /\ imageCache[a]["THE_AUDIO_DB"] = "absent"

\* every per-artist image task of the load has returned while its personality
\* analysis or its headline request has not
ImagesDoneAnalysisPending(L) ==
  /\ L.phase = "images"
  /\ \A a \in Range(L.artists) : L.taskSt[a] = "done"
  /\ L.persAll \in {"pending", "headline"}

\* C13: no tile waits in Loading for the personality analysis or the headline
\* request: when every image task of the load that rendered the tiles has
\* returned and nothing is left to run but the analysis or the headline
\* request, no tile that holds an image is Loading.
C13_RevealNotWaitingForHeadline ==
  \A g \in LoadIds :
     (Quiescent /\ g = domGen /\ ImagesDoneAnalysisPending(loads[g])) =>
        \A a \in TilesOf(tiles, currentArtists) :
           tiles[a].hasImage # {} => ~Loading(tiles[a])

\* C14: while the background shows the conclusive color of a load, no
\* progressive color update of that load replaces it.
C14_ConclusiveColorStays ==
  [][\A g \in LoadIds :
       (backgroundColor.conclusive /\ backgroundColor.load = g) =>
          ~(backgroundColor'.load = g /\ ~backgroundColor'.conclusive)]_vars

\* ------------------------------------------------------------------ strings
\* A string the code compares or hashes is the sequence of its code units;
\* an identifier or a URL it only passes on is a string literal.
toLowerCase(str) ==
  [i \in DOMAIN str |-> IF str[i] >= 65 /\ str[i] <= 90 THEN str[i] + 32 ELSE str[i]]

\* "Drama", "DRAMA" and "Other"; the empty sequence is '' or a missing name
Drama == <<68, 114, 97, 109, 97>>
DRAMA == <<68, 82, 65, 77, 65>>
Other == <<79, 116, 104, 101, 114>>

Null == "null"
Undefined == "undefined"
Falsy(v) == v \in {Undefined, Null, ""}

\* headers.get(...) === null
NoHeader == -1

\* --------------------------------------------------------- getMusicBrainzData
\* What fetch may settle with: a rejection, or a response of some status whose
\* json() gives a body or rejects (parsed = FALSE).
Response(status, remaining, body) ==
  [thrown |-> FALSE, status |-> status, remaining |-> remaining, body |-> body]
NoBody == [parsed |-> FALSE, artists |-> <<>>, name |-> <<>>, relations |-> <<>>]
Rejection == [thrown |-> TRUE, status |-> 0, remaining |-> NoHeader, body |-> NoBody]
Ok(resp) == resp.status >= 200 /\ resp.status <= 299

\* search bodies: no artist, or one artist with or without a name and an id
SearchBodies ==
  {[NoBody EXCEPT !.parsed = TRUE]} \cup
  {[NoBody EXCEPT !.parsed = TRUE, !.artists = <<[name |-> n, id |-> i]>>] :
     n \in {<<>>, Drama, DRAMA, Other}, i \in {"mbid-search", Undefined}}

\* the relations of a lookup body: an entry that is null, a Discogs label
\* link, two Discogs artist links, a link of another type to a Discogs artist
\* page
NullRel == [isObject |-> FALSE, type |-> Undefined, resource |-> Undefined]
LabelRel == [isObject |-> TRUE, type |-> "discogs",
             resource |-> "https://www.discogs.com/label/9"]
ArtistRel == [isObject |-> TRUE, type |-> "discogs",
              resource |-> "https://www.discogs.com/artist/123"]
SecondArtistRel == [isObject |-> TRUE, type |-> "discogs",
                    resource |-> "https://www.discogs.com/artist/456"]
WikidataRel == [isObject |-> TRUE, type |-> "wikidata",
                resource |-> "https://www.discogs.com/artist/456"]
LookupBodies ==
  {[NoBody EXCEPT !.parsed = TRUE, !.name = n, !.relations = r] :
     n \in {<<>>, Drama, DRAMA, Other},
     r \in {<<>>, <<ArtistRel>>, <<LabelRel, ArtistRel>>, <<NullRel, ArtistRel>>,
            <<SecondArtistRel, ArtistRel>>, <<WikidataRel, ArtistRel, SecondArtistRel>>}}

MbResponses(bodies) ==
  {Rejection, Response(500, NoHeader, NoBody), Response(200, NoHeader, NoBody)}
  \cup {Response(429, r, NoBody) : r \in {NoHeader, 20}}
  \cup {Response(200, NoHeader, b) : b \in bodies}

\* rel.url.resource.match(/discogs\.com\/artist\/(\d+)/): the captured id or Null
DiscogsMatch(resource) ==
  IF resource = "https://www.discogs.com/artist/123" THEN "123"
  ELSE IF resource = "https://www.discogs.com/artist/456" THEN "456"
  ELSE Null

RelationsLoopToTheEnd(relations) ==
  LET nulls == {i \in 1..Len(relations) : ~relations[i].isObject}
      hits == {i \in 1..Len(relations) :
                 /\ relations[i].isObject
                 /\ relations[i].type = "discogs"
                 /\ ~Falsy(relations[i].resource)
                 /\ DiscogsMatch(relations[i].resource) # Null}
      last == CHOOSE i \in hits : \A j \in hits : i >= j
  IN IF nulls # {} THEN "TypeError"
     ELSE IF hits = {} THEN Null
     ELSE DiscogsMatch(relations[last].resource)

\* the loop over data.relations: the id of the first Discogs artist link, Null
\* without one, "TypeError" when an entry before it is null
RelationsLoop(relations) ==
  LET stops == {i \in 1..Len(relations) :
                  \/ ~relations[i].isObject
                  \/ /\ relations[i].type = "discogs"
                     /\ ~Falsy(relations[i].resource)
                     /\ DiscogsMatch(relations[i].resource) # Null}
      first == CHOOSE i \in stops : \A j \in stops : i <= j
  IN IF stops = {} THEN Null
     ELSE IF ~relations[first].isObject THEN "TypeError"
     ELSE DiscogsMatch(relations[first].resource)

\* musicBrainzRateLimiter.updateFromHeaders, markRateLimited
\* updateFromHeaders that ignores the header
updateFromHeadersSkipped(lim, resp) == lim

\* musicBrainzRateLimiter.updateFromHeaders(headers)
updateFromHeaders(lim, resp) ==
  IF resp.remaining # NoHeader THEN [lim EXCEPT !.remaining = resp.remaining] ELSE lim
markRateLimited(lim) == [lim EXCEPT !.rateLimited = TRUE]

\* musicBrainzRateLimiter.waitIfNeeded up to its await: the delay of the timer
\* it sets is appended to the waits of the call
waitIfNeeded(c, lim, pc) ==
  LET delay == IF lim.rateLimited THEN 2000
               ELSE IF lim.remaining > 150 THEN 200
               ELSE IF lim.remaining > 50 THEN 500
               ELSE 1000
  IN [c EXCEPT !.pc = pc, !.elevated = lim.rateLimited, !.waits = Append(@, delay)]

MbReturn(c, mbid, discogsId) ==
  [c EXCEPT !.pc = "returned", !.result = [mbid |-> mbid, discogsId |-> discogsId]]

\* after the search block: without an id the nulls are returned, with one the
\* lookup block starts
AfterSearch(c, lim) ==
  IF Falsy(c.effectiveMbid) THEN MbReturn(c, Null, Null)
  ELSE waitIfNeeded(c, lim, "lookupWait")

\* the search block reading a body: the first artist's id when its name is
\* the queried name ignoring case; a json() rejection is caught
SearchBody(c, body) ==
  IF /\ body.parsed
     /\ body.artists # <<>>
     /\ body.artists[1].name # <<>>
     /\ toLowerCase(body.artists[1].name) = toLowerCase(c.artistName)
  THEN [c EXCEPT !.effectiveMbid = body.artists[1].id]
  ELSE c

\* the lookup block without its catch: a json() rejection or a TypeError
\* rejects the call
LookupBodyUncaught(c, body) ==
  IF ~body.parsed THEN [c EXCEPT !.pc = "rejected"]
  ELSE IF body.name # <<>> /\ toLowerCase(body.name) # toLowerCase(c.artistName)
  THEN MbReturn(c, Null, Null)
  ELSE IF RelationsLoop(body.relations) = "TypeError"
  THEN [c EXCEPT !.pc = "rejected"]
  ELSE MbReturn(c, c.effectiveMbid, RelationsLoop(body.relations))

\* the lookup block without the comparison of data.name
LookupBodyAnyName(c, body) ==
  IF ~body.parsed \/ RelationsLoop(body.relations) = "TypeError"
  THEN MbReturn(c, c.effectiveMbid, Null)
  ELSE MbReturn(c, c.effectiveMbid, RelationsLoop(body.relations))

\* the lookup block reading a body: nulls when the name is another artist's,
\* otherwise the id and the Discogs id of the relations; a json() rejection
\* or a TypeError is caught and the id alone is returned
LookupBody(c, body) ==
  IF ~body.parsed THEN MbReturn(c, c.effectiveMbid, Null)
  ELSE IF body.name # <<>> /\ toLowerCase(body.name) # toLowerCase(c.artistName)
  THEN MbReturn(c, Null, Null)
  ELSE IF RelationsLoop(body.relations) = "TypeError"
  THEN MbReturn(c, c.effectiveMbid, Null)
  ELSE MbReturn(c, c.effectiveMbid, RelationsLoop(body.relations))

\* getMusicBrainzData(artistName, mbid) up to its first await
GetMusicBrainzData(artistName, mbid) ==
  LET c == [fn |-> "getMusicBrainzData", artistName |-> artistName, mbid |-> mbid,
            effectiveMbid |-> mbid, pc |-> "start", elevated |-> FALSE,
            requests |-> <<>>, waits |-> <<>>, responses |-> <<>>,
            result |-> [mbid |-> Undefined, discogsId |-> Undefined]]
  IN /\ call = IdleCall
     /\ call' = IF Falsy(mbid)
                THEN waitIfNeeded(c, musicBrainzRateLimiter, "searchWait")
                ELSE waitIfNeeded(c, musicBrainzRateLimiter, "lookupWait")
     /\ UNCHANGED <<musicBrainzRateLimiter, pipelineVars>>

InMbCall == call.fn = "getMusicBrainzData"

\* the timer of waitIfNeeded fires: after the elevated wait rateLimited is
\* cleared; the request of the block is sent
MbWaitDone ==
  /\ InMbCall
  /\ call.pc \in {"searchWait", "searchRetryWait", "lookupWait", "lookupRetryWait"}
  /\ musicBrainzRateLimiter' =
       IF call.elevated THEN [musicBrainzRateLimiter EXCEPT !.rateLimited = FALSE]
       ELSE musicBrainzRateLimiter
  /\ call' = [call EXCEPT
                !.pc = CASE call.pc = "searchWait" -> "search"
                         [] call.pc = "searchRetryWait" -> "searchRetry"
                         [] call.pc = "lookupWait" -> "lookup"
                         [] call.pc = "lookupRetryWait" -> "lookupRetry",
                !.elevated = FALSE,
                !.requests = Append(@,
                   IF call.pc \in {"searchWait", "searchRetryWait"}
                   THEN [url |-> "/api/musicbrainz/artist?query=", id |-> Undefined]
                   ELSE [url |-> "/api/musicbrainz/artist/", id |-> call.effectiveMbid])]
  /\ UNCHANGED pipelineVars

\* the search block retrying after every 429
SearchSettledRetriesAgain(resp) ==
  LET c == [call EXCEPT !.responses = Append(@, resp)]
      lim == updateFromHeaders(musicBrainzRateLimiter, resp)
  IN /\ InMbCall
     /\ call.pc \in {"search", "searchRetry"}
     /\ Len(call.requests) < 4
     /\ resp \in MbResponses(SearchBodies)
     /\ IF resp.thrown
        THEN /\ call' = AfterSearch(c, musicBrainzRateLimiter)
             /\ UNCHANGED musicBrainzRateLimiter
        ELSE IF resp.status = 429
        THEN /\ musicBrainzRateLimiter' = markRateLimited(lim)
             /\ call' = waitIfNeeded(c, markRateLimited(lim), "searchRetryWait")
        ELSE /\ musicBrainzRateLimiter' = lim
             /\ call' = IF Ok(resp) THEN AfterSearch(SearchBody(c, resp.body), lim)
                        ELSE AfterSearch(c, lim)
     /\ UNCHANGED pipelineVars

\* the search request or its retry settles
SearchSettled(resp) ==
  LET c == [call EXCEPT !.responses = Append(@, resp)]
      lim == updateFromHeaders(musicBrainzRateLimiter, resp)
  IN /\ InMbCall
     /\ call.pc \in {"search", "searchRetry"}
     /\ resp \in MbResponses(SearchBodies)
     /\ IF resp.thrown
        THEN /\ call' = AfterSearch(c, musicBrainzRateLimiter)
             /\ UNCHANGED musicBrainzRateLimiter
        ELSE IF call.pc = "search" /\ resp.status = 429
        THEN /\ musicBrainzRateLimiter' = markRateLimited(lim)
             /\ call' = waitIfNeeded(c, markRateLimited(lim), "searchRetryWait")
        ELSE /\ musicBrainzRateLimiter' = lim
             /\ call' = IF Ok(resp) THEN AfterSearch(SearchBody(c, resp.body), lim)
                        ELSE AfterSearch(c, lim)
     /\ UNCHANGED pipelineVars

\* the lookup request or its retry settles
LookupSettled(resp) ==
  LET c == [call EXCEPT !.responses = Append(@, resp)]
      lim == updateFromHeaders(musicBrainzRateLimiter, resp)
  IN /\ InMbCall
     /\ call.pc \in {"lookup", "lookupRetry"}
     /\ resp \in MbResponses(LookupBodies)
     /\ IF resp.thrown
        THEN /\ call' = MbReturn(c, c.effectiveMbid, Null)
             /\ UNCHANGED musicBrainzRateLimiter
        ELSE IF call.pc = "lookup" /\ resp.status = 429
        THEN /\ musicBrainzRateLimiter' = markRateLimited(lim)
             /\ call' = waitIfNeeded(c, markRateLimited(lim), "lookupRetryWait")
        ELSE /\ musicBrainzRateLimiter' = lim
             /\ call' = IF Ok(resp) THEN LookupBody(c, resp.body)
                        ELSE MbReturn(c, c.effectiveMbid, Null)
     /\ UNCHANGED pipelineVars

\* a getMusicBrainzData call of another chain marks the limiter, or its
\* elevated wait ends, while this call is waiting or has a request in flight
OtherCallLimiter(rateLimited) ==
  /\ InMbCall
  /\ call.pc # "returned"
  /\ rateLimited # musicBrainzRateLimiter.rateLimited
  /\ musicBrainzRateLimiter' = [musicBrainzRateLimiter EXCEPT !.rateLimited = rateLimited]
  /\ UNCHANGED <<call, pipelineVars>>


\* ----------------------------------------------------------- fetchAudioDBData
\* bodies of /api/audiodb/artist: retryAfter 0 stands for a missing one
NoAdbBody == [parsed |-> FALSE, retryAfter |-> 0, artists |-> <<>>]
AdbArtist(thumb, fanart, mood) ==
  [strArtistThumb |-> thumb, strArtistFanart |-> fanart, strGenre |-> "Rock",
   strStyle |-> Null, strMood |-> mood]
AdbBodies ==
  {[NoAdbBody EXCEPT !.parsed = TRUE]} \cup
  {[NoAdbBody EXCEPT !.parsed = TRUE, !.artists = <<AdbArtist(t, f, "Happy")>>] :
     t \in {Null, "thumb.jpg"}, f \in {Null, "fanart.jpg"}}
AdbResponses ==
  {Rejection, Response(500, NoHeader, NoAdbBody), Response(200, NoHeader, NoAdbBody)}
  \cup {Response(429, NoHeader, [NoAdbBody EXCEPT !.parsed = p, !.retryAfter = r]) :
          p \in BOOLEAN, r \in {0, 5}}
  \cup {Response(200, NoHeader, b) : b \in AdbBodies}

empty == [image |-> Null, genre |-> Null, style |-> Null, mood |-> Null]

\* a || b || null
OrNull(a, b) == IF ~Falsy(a) THEN a ELSE IF ~Falsy(b) THEN b ELSE Null

\* the seconds to wait after a 429: body.retryAfter, 60 without one or when
\* json() rejects
retryAfter(resp) ==
  IF resp.body.parsed /\ resp.body.retryAfter # 0 THEN resp.body.retryAfter ELSE 60

AdbReturn(c, result) == [c EXCEPT !.pc = "returned", !.result = result]

\* from if (!response.ok) to the end of the try, with its catch
AdbBody(c, resp) ==
  IF ~Ok(resp) \/ ~resp.body.parsed \/ resp.body.artists = <<>> THEN AdbReturn(c, empty)
  ELSE LET artist == resp.body.artists[1]
       IN AdbReturn(c, [image |-> OrNull(artist.strArtistThumb, artist.strArtistFanart),
                        genre |-> OrNull(artist.strGenre, Null),
                        style |-> OrNull(artist.strStyle, Null),
                        mood |-> OrNull(artist.strMood, Null)])

\* fetchAudioDBData(mbid) up to its first await
FetchAudioDBData(mbid) ==
  LET c == [fn |-> "fetchAudioDBData", mbid |-> mbid, pc |-> "fetch",
            requests |-> <<>>, waits |-> <<>>, responses |-> <<>>, result |-> empty]
  IN /\ call = IdleCall
     /\ call' = IF Falsy(mbid) THEN AdbReturn(c, empty)
                ELSE [c EXCEPT !.requests = <<[url |-> "/api/audiodb/artist/", id |-> mbid]>>]
     /\ UNCHANGED <<musicBrainzRateLimiter, pipelineVars>>

InAdbCall == call.fn = "fetchAudioDBData"

\* the request or its retry settles
AdbSettled(resp) ==
  LET c == [call EXCEPT !.responses = Append(@, resp)]
  IN /\ InAdbCall
     /\ call.pc \in {"fetch", "retry"}
     /\ resp \in AdbResponses
     /\ call' = IF resp.thrown THEN AdbReturn(c, empty)
                ELSE IF call.pc = "fetch" /\ resp.status = 429
                THEN [c EXCEPT !.pc = "retryWait",
                               !.waits = Append(@, retryAfter(resp) * 1000)]
                ELSE AdbBody(c, resp)
     /\ UNCHANGED <<musicBrainzRateLimiter, pipelineVars>>

\* the retryAfter timer fires: the request is sent again
AdbWaitDone ==
  /\ InAdbCall
  /\ call.pc = "retryWait"
  /\ call' = [call EXCEPT !.pc = "retry",
                          !.requests = Append(@, [url |-> "/api/audiodb/artist/", id |-> call.mbid])]
  /\ UNCHANGED <<musicBrainzRateLimiter, pipelineVars>>


\* ------------------------------------------------------ seed and generators
\* A 32-bit value is kept as two 16-bit halves.
Word(hi, lo) == [hi |-> hi, lo |-> lo]

\* a ^ b of two 16-bit values, bit by bit
Xor(a, b) ==
  LET bit(k) == ((a \div k) + (b \div k)) % 2
  IN bit(1) + 2 * bit(2) + 4 * bit(4) + 8 * bit(8) + 16 * bit(16) + 32 * bit(32)
     + 64 * bit(64) + 128 * bit(128) + 256 * bit(256) + 512 * bit(512)
     + 1024 * bit(1024) + 2048 * bit(2048) + 4096 * bit(4096) + 8192 * bit(8192)
     + 16384 * bit(16384) + 32768 * bit(32768)

\* hashString(str): hash = ((hash << 5) + hash) ^ str.charCodeAt(i) from 5381,
\* on 32 bits, then hash >>> 0
RECURSIVE hashLoop(_, _, _)
hashLoop(str, i, hash) ==
  IF i > Len(str) THEN hash
  ELSE LET lo33 == hash.lo * 33
           hi33 == (hash.hi * 33) + (lo33 \div 65536)
       IN hashLoop(str, i + 1, Word(hi33 % 65536, Xor(lo33 % 65536, str[i])))
hashString(str) == hashLoop(str, 1, Word(0, 5381))

\* a < b in the order of Array.prototype.sort without a comparator (code units)
RECURSIVE Before(_, _, _)
Before(a, b, i) ==
  IF i > Len(a) THEN i <= Len(b)
  ELSE IF i > Len(b) THEN FALSE
  ELSE IF a[i] # b[i] THEN a[i] < b[i]
  ELSE Before(a, b, i + 1)

\* strs.sort(): the strings of the array in ascending order
RECURSIVE sort(_)
sort(strs) ==
  IF strs = <<>> THEN <<>>
  ELSE LET least == CHOOSE i \in DOMAIN strs :
                      \A j \in DOMAIN strs : ~Before(strs[j], strs[i], 1)
           others == [k \in 1..(Len(strs) - 1) |-> IF k < least THEN strs[k] ELSE strs[k + 1]]
       IN <<strs[least]>> \o sort(others)

\* strs.join(',')
RECURSIVE join(_)
join(strs) ==
  IF strs = <<>> THEN <<>>
  ELSE IF Len(strs) = 1 THEN strs[1]
  ELSE strs[1] \o <<44>> \o join(Tail(strs))

generatePersonalitySeedUnsorted(username, artists) ==
  hashString(toLowerCase(username) \o <<124>> \o
             join([i \in DOMAIN artists |->
                     toLowerCase(artists[i].name) \o <<58>> \o artists[i].playcount]))

\* generatePersonalitySeed(username, artists)
generatePersonalitySeed(username, artists) ==
  hashString(toLowerCase(username) \o <<124>> \o
             join(sort([i \in DOMAIN artists |->
                          toLowerCase(artists[i].name) \o <<58>> \o artists[i].playcount])))

\* parseInt(playcount, 10) || 1 of a string of decimal digits
RECURSIVE parseInt(_, _)
parseInt(digits, n) ==
  IF n = 0 THEN 0 ELSE 10 * parseInt(digits, n - 1) + (digits[n] - 48)
playcountOf(artist) ==
  IF parseInt(artist.playcount, Len(artist.playcount)) = 0 THEN 1
  ELSE parseInt(artist.playcount, Len(artist.playcount))

\* currentPersonalitySeed ? createSeededRandom(currentPersonalitySeed + offset) : null.
\* A generator is kept as its seed and offset and a draw as the generator and
\* the index of the draw: mulberry32 is a function of these.
NoGenerator == [seeded |-> FALSE, seed |-> Word(0, 0), offset |-> 0]
createSeededRandom(seed, offset) ==
  IF seed # Word(0, 0) THEN [seeded |-> TRUE, seed |-> seed, offset |-> offset]
  ELSE NoGenerator

\* --------------------------------------------------- personality analysis
\* "nokyenf" and "rj"
nokyenf == <<110, 111, 107, 121, 101, 110, 102>>
rj == <<114, 106>>
Usernames == {nokyenf, rj}

\* an artist of the list with what TheAudioDB answered for it
Artist(name, playcount, genre, mood) ==
  [name |-> name, playcount |-> playcount, genre |-> genre, style |-> Null, mood |-> mood]
DramaHappy == Artist(Drama, <<52, 50>>, "Rock", "Happy")
OtherHappy == Artist(Other, <<52, 50>>, "Rock", "Happy")
DramaNoData == Artist(Drama, <<52, 50>>, Null, Null)
OtherSad == Artist(Other, <<55>>, Null, "Sad")
\* A with 100 plays and the mood happy, B with 50 plays and the mood sad
HappyAndSad ==
  <<Artist(Drama, <<49, 48, 48>>, Null, "happy"), Artist(Other, <<53, 48>>, Null, "sad")>>
ArtistLists ==
  {<<DramaHappy>>, <<OtherHappy>>, <<DramaNoData>>,
   <<DramaHappy, OtherSad>>, <<OtherSad, DramaHappy>>, HappyAndSad}

\* the data object of an artist
personalityDataOf(artist) ==
  [name |-> artist.name, genre |-> artist.genre, style |-> artist.style,
   mood |-> artist.mood, playcount |-> playcountOf(artist)]

\* personalityData.filter((d) => d.genre || d.style || d.mood)
validDataOf(artists) ==
  SelectSeq([i \in DOMAIN artists |-> personalityDataOf(artists[i])],
            LAMBDA d : ~Falsy(d.genre) \/ ~Falsy(d.style) \/ ~Falsy(d.mood))

\* finalMoodWeights: count / total of each mood, relaxed: 1 without a mood
finalMoodWeightsOf(validData) ==
  LET withMood == {i \in DOMAIN validData : ~Falsy(validData[i].mood)}
      moods == {validData[i].mood : i \in withMood}
      Sum[S \in SUBSET withMood] ==
        IF S = {} THEN 0
        ELSE LET i == CHOOSE i \in S : TRUE
             IN validData[i].playcount + Sum[S \ {i}]
  IN IF withMood = {} THEN {[mood |-> "relaxed", count |-> 1, total |-> 1]}
     ELSE {[mood |-> m, count |-> Sum[{i \in withMood : validData[i].mood = m}],
            total |-> Sum[withMood]] : m \in moods}

\* the body of the POST to /api/personality: seed is (seed() * 1000000) | 0 of
\* the first draw of the generator, null without a generator
RequestBody(artistsData, seed) ==
  [artists |-> artistsData, seed |-> [of |-> seed, draw |-> IF seed.seeded THEN 1 ELSE 0]]
NoRequest == RequestBody(<<>>, NoGenerator)

\* generateBlendedColor(seededRandom, moodWeights): a function of the weights
\* and of three draws of the generator, or without a generator of three
\* values of crypto.getRandomValues or Math.random
\* the keys of MOOD_COLORS, and generateBlendedColor's entries: the weights
\* whose key MOOD_COLORS holds
MOOD_COLORS == {"happy", "sad", "angry", "relaxed", "energetic", "dark"}
entriesOf(moodWeights) == {w \in moodWeights : w.mood \in MOOD_COLORS}

CryptoValues == {"r", "r'"}
generateBlendedColor(seededRandom, moodWeights, unseeded) ==
  [weights |-> moodWeights, of |-> seededRandom,
   random |-> IF seededRandom.seeded THEN "draws 1 to 3" ELSE unseeded]
NoColor == [weights |-> {}, of |-> NoGenerator, random |-> "none"]

\* what /api/personality may settle with
HeadlineBodies == {"unparsable", "null", "without headline", "with headline"}
HeadlineResponses ==
  {[status |-> 0, body |-> "none"], [status |-> 500, body |-> "none"]}
  \cup {[status |-> 200, body |-> b] : b \in HeadlineBodies}

\* what analyzePersonality settles with: what json() gave, the fallback after
\* a rejection of fetch or of json() (caught) and after a non-OK response
Returned(isNull, headline) == [rejected |-> FALSE, isNull |-> isNull, headline |-> headline]
Fallback == Returned(FALSE, "A Musical Soul")

\* analyzePersonality without its try and catch
analyzePersonalityUncaught(resp) ==
  IF resp.status = 0 \/ resp.body = "unparsable"
  THEN [rejected |-> TRUE, isNull |-> FALSE, headline |-> Undefined]
  ELSE IF resp.status # 200 THEN Fallback
  ELSE IF resp.body = "null" THEN Returned(TRUE, Undefined)
  ELSE IF resp.body = "without headline" THEN Returned(FALSE, Undefined)
  ELSE Returned(FALSE, "Server Headline")

analyzePersonality(resp) ==
  IF resp.status # 200 \/ resp.body = "unparsable" THEN Fallback
  ELSE IF resp.body = "null" THEN Returned(TRUE, Undefined)
  ELSE IF resp.body = "without headline" THEN Returned(FALSE, Undefined)
  ELSE Returned(FALSE, "Server Headline")

NoRun ==
  [pc |-> "none", username |-> <<>>, artists |-> <<>>, seed |-> Word(0, 0),
   request |-> NoRequest, response |-> [status |-> 0, body |-> "none"],
   analysis |-> Returned(FALSE, Undefined), headline |-> Null, color |-> NoColor]

InAnalysis == call.fn = "analysis"
Over(run) == run.pc \in {"done", "thrown", "rejected", "noPersonality"}

\* renderArtists(artists, username) sets currentPersonalitySeed, and all the
\* data objects have resolved: with valid data the headline request is sent.
\* A second run follows a first one that is over.
Analysis(username, artists) ==
  LET validData == validDataOf(artists)
      seed == generatePersonalitySeed(username, artists)
      run == [NoRun EXCEPT !.username = username, !.artists = artists, !.seed = seed]
  IN /\ \/ call = IdleCall
        \/ InAnalysis /\ Over(call.run) /\ call.prev = NoRun
     /\ call' =
          [fn |-> "analysis",
           prev |-> IF call = IdleCall THEN NoRun ELSE call.run,
           run |-> IF validData = <<>> THEN [run EXCEPT !.pc = "noPersonality"]
                   ELSE [run EXCEPT
                           !.pc = "fetch",
                           !.request = RequestBody(validData, createSeededRandom(seed, 1000))]]
     /\ UNCHANGED <<musicBrainzRateLimiter, pipelineVars>>

\* "RJ" and "Rj"; the usernames and artist lists a seed is generated for:
\* Drama and DRAMA with 42 plays, Drama with 7, Other with 7, in either order,
\* twice, and no artist at all
SeedUsernames == {rj, <<82, 74>>, <<82, 106>>, nokyenf}
SeedArtistLists ==
  LET d == Artist(Drama, <<52, 50>>, Null, Null)
      D == Artist(DRAMA, <<52, 50>>, Null, Null)
      d7 == Artist(Drama, <<55>>, Null, Null)
      o == Artist(Other, <<55>>, Null, Null)
  IN {<<>>, <<d>>, <<D>>, <<d7>>, <<d, o>>, <<o, d>>, <<o, D>>, <<d, d>>}

NoSeed == [username |-> <<>>, artists |-> <<>>, seed |-> Word(0, 0), made |-> FALSE]
InSeed == call.fn = "seed"

\* renderArtists: currentPersonalitySeed = generatePersonalitySeed(username,
\* artists), of one render and of the render after it
SeedCall(username, artists) ==
  /\ \/ call = IdleCall
     \/ InSeed /\ ~call.prev.made
  /\ call' = [fn |-> "seed",
              prev |-> IF call = IdleCall THEN NoSeed ELSE call.run,
              run |-> [username |-> username, artists |-> artists,
                       seed |-> generatePersonalitySeed(username, artists),
                       made |-> TRUE]]
  /\ UNCHANGED <<musicBrainzRateLimiter, pipelineVars>>

\* after await analyzePersonality(...): displayPersonality(analysis.headline)
\* and the conclusive color; reading the headline of null throws
AfterAnalysis(run, resp, unseeded) ==
  LET analysis == analyzePersonality(resp)
      done == [run EXCEPT !.response = resp, !.analysis = analysis]
  IN IF analysis.rejected THEN [done EXCEPT !.pc = "rejected"]
     ELSE IF analysis.isNull THEN [done EXCEPT !.pc = "thrown"]
     ELSE [done EXCEPT
             !.pc = "done",
             !.headline = IF Falsy(analysis.headline) THEN Null ELSE analysis.headline,
             !.color = generateBlendedColor(createSeededRandom(run.seed, 2000),
                                            finalMoodWeightsOf(run.request.artists),
                                            unseeded)]

\* fetch settles: a rejection or a non-OK response ends analyzePersonality, an
\* OK response is read with json()
HeadlineSettled(status, unseeded) ==
  /\ InAnalysis
  /\ call.run.pc = "fetch"
  /\ call' = IF status = 200 THEN [call EXCEPT !.run.pc = "json"]
             ELSE [call EXCEPT
                     !.run = AfterAnalysis(call.run, [status |-> status, body |-> "none"], unseeded)]
  /\ UNCHANGED <<musicBrainzRateLimiter, pipelineVars>>

\* response.json() settles
HeadlineJson(body, unseeded) ==
  /\ InAnalysis
  /\ call.run.pc = "json"
  /\ call' = [call EXCEPT
                !.run = AfterAnalysis(call.run, [status |-> 200, body |-> body], unseeded)]
  /\ UNCHANGED <<musicBrainzRateLimiter, pipelineVars>>

\* ------------------------------------------------------ personality service
\* The strings the artists of a request hold, as TheAudioDB writes them
\* ("Rock", "Punk", ...), and the keys of the two maps they can meet; <<>> is
\* a missing or empty string.
Raw ==
  [Rock |-> <<82, 111, 99, 107>>,
   Punk |-> <<80, 117, 110, 107>>,
   Pop |-> <<80, 111, 112>>,
   Jazz |-> <<74, 97, 122, 122>>,
   Polka |-> <<80, 111, 108, 107, 97>>,
   Happy |-> <<72, 97, 112, 112, 121>>,
   Cheerful |-> <<67, 104, 101, 101, 114, 102, 117, 108>>,
   Sad |-> <<83, 97, 100>>,
   Weird |-> <<87, 101, 105, 114, 100>>]
Key ==
  [rock |-> <<114, 111, 99, 107>>,
   punk |-> <<112, 117, 110, 107>>,
   pop |-> <<112, 111, 112>>,
   jazz |-> <<106, 97, 122, 122>>,
   happy |-> <<104, 97, 112, 112, 121>>,
   cheerful |-> <<99, 104, 101, 101, 114, 102, 117, 108>>,
   sad |-> <<115, 97, 100>>]

\* the entries of GENRE_FAMILY_MAP and MOOD_MAP for these keys
GENRE_FAMILY_MAP ==
  (Key.rock :> "rock") @@ (Key.punk :> "rock") @@ (Key.pop :> "pop") @@ (Key.jazz :> "jazz")
MOOD_MAP ==
  (Key.happy :> "happy") @@ (Key.cheerful :> "happy") @@ (Key.sad :> "sad")

\* MAP[str.toLowerCase()] || null
Lookup(map, str) ==
  IF toLowerCase(str) \in DOMAIN map THEN map[toLowerCase(str)] ELSE Null

\* an artist of the request body; playcount 0 stands for 0 or a missing one
ServiceArtist(genre, style, mood, playcount) ==
  [genre |-> genre, style |-> style, mood |-> mood, playcount |-> playcount]
ServiceArtists ==
  {ServiceArtist(Raw.Rock, <<>>, Raw.Happy, 3),
   ServiceArtist(<<>>, Raw.Punk, Raw.Cheerful, 1),
   ServiceArtist(Raw.Pop, Raw.Rock, Raw.Sad, 1),
   ServiceArtist(Raw.Jazz, <<>>, Raw.Sad, 2),
   ServiceArtist(Raw.Jazz, <<>>, <<>>, 0),
   ServiceArtist(<<>>, <<>>, Raw.Weird, 3),
   ServiceArtist(Raw.Polka, <<>>, Raw.Happy, 1)}

\* artist.playcount || 1
weightOf(artist) == IF artist.playcount = 0 THEN 1 ELSE artist.playcount

\* the key an artist adds to moodCounts or to genreCounts, Null for none
normalizedMood(artist) ==
  IF artist.mood = <<>> THEN Null ELSE Lookup(MOOD_MAP, artist.mood)
normalizedGenre(artist) ==
  LET genreStr == IF artist.genre # <<>> THEN artist.genre ELSE artist.style
  IN IF genreStr = <<>> THEN Null ELSE Lookup(GENRE_FAMILY_MAP, genreStr)

\* the counts with every artist counted once, whatever its playcount
addCountUnweighted(counts, key, weight) ==
  IF \E k \in DOMAIN counts : counts[k].key = key
  THEN [k \in DOMAIN counts |->
          IF counts[k].key = key THEN [counts[k] EXCEPT !.count = @ + 1]
          ELSE counts[k]]
  ELSE Append(counts, [key |-> key, count |-> 1])

\* counts[key] = (counts[key] || 0) + weight; the entries keep the order in
\* which the keys were first written (Object.entries)
addCount(counts, key, weight) ==
  IF \E k \in DOMAIN counts : counts[k].key = key
  THEN [k \in DOMAIN counts |->
          IF counts[k].key = key THEN [counts[k] EXCEPT !.count = @ + weight]
          ELSE counts[k]]
  ELSE Append(counts, [key |-> key, count |-> weight])

\* for (const artist of artists): moodCounts ("mood") or genreCounts ("genre")
RECURSIVE countLoop(_, _, _, _)
countLoop(artists, i, which, counts) ==
  IF i > Len(artists) THEN counts
  ELSE LET key == IF which = "mood" THEN normalizedMood(artists[i])
                  ELSE normalizedGenre(artists[i])
       IN countLoop(artists, i + 1, which,
                    IF key = Null THEN counts
                    ELSE addCount(counts, key, weightOf(artists[i])))

\* totalPlays += weight
RECURSIVE totalPlaysOf(_, _)
totalPlaysOf(artists, n) ==
  IF n = 0 THEN 0 ELSE totalPlaysOf(artists, n - 1) + weightOf(artists[n])

\* for (const [key, count] of entries) if (count > max) { max = count; dominant = key }
RECURSIVE dominantLoop(_, _, _)
dominantLoop(entries, i, best) ==
  IF i > Len(entries) THEN best
  ELSE dominantLoop(entries, i + 1,
                    IF entries[i].count > best.count THEN entries[i] ELSE best)

\* the dominant genre with the test for two or more genres
dominantGenreFromTwo(genreEntries, totalPlays) ==
  LET leader == dominantLoop(genreEntries, 1, [key |-> "eclectic", count |-> 0])
  IN IF Len(genreEntries) >= 2 /\ 2 * leader.count < totalPlays THEN "eclectic"
     ELSE leader.key

\* the dominant genre: 'eclectic' with 3 or more genres when
\* maxGenreCount / totalPlays < 0.5
dominantGenreOf(genreEntries, totalPlays) ==
  LET leader == dominantLoop(genreEntries, 1, [key |-> "eclectic", count |-> 0])
  IN IF Len(genreEntries) >= 3 /\ 2 * leader.count < totalPlays THEN "eclectic"
     ELSE leader.key

\* analyzePersonality(artists, seed) of the service, without the headline
analyzePersonalityService(artists) ==
  LET moodCounts == countLoop(artists, 1, "mood", <<>>)
      genreCounts == countLoop(artists, 1, "genre", <<>>)
      dominantMood == dominantLoop(moodCounts, 1, [key |-> Null, count |-> 0]).key
  IN [mood |-> IF dominantMood = Null THEN "relaxed" ELSE dominantMood,
      genre |-> dominantGenreOf(genreCounts, totalPlaysOf(artists, Len(artists))),
      moodCounts |-> moodCounts,
      genreCounts |-> genreCounts]

MaxServiceArtists == 4
ServiceRequests ==
  UNION {[1..n -> ServiceArtists] : n \in 1..MaxServiceArtists}

InService == call.fn = "personalityService"

\* POST /api/personality: the service analyses the artists of the body
ServiceAnalysis(artists) ==
  /\ call = IdleCall
  /\ call' = [fn |-> "personalityService", artists |-> artists,
              result |-> analyzePersonalityService(artists)]
  /\ UNCHANGED <<musicBrainzRateLimiter, pipelineVars>>

\* ------------------------------------------------------ fetchDiscogsImageById
\* CONFIG.tileSize and fetchDiscogsImageById's MIN_SIZE
tileSize == 250
MIN_SIZE == tileSize * 3

\* the URIs Discogs gives: real ones, the empty string and the placeholder
Uris == <<"https://i.discogs.com/1.jpg", "https://i.discogs.com/2.jpg",
          "https://i.discogs.com/3.jpg", "https://i.discogs.com/4.jpg">>
SpacerUri == "https://s.discogs.com/images/spacer.gif"
isValidDiscogsImage(url) == ~Falsy(url) /\ url # SpacerUri

\* Number of entries of data.images explored.
MaxImages == 3

\* an entry of data.images; the lists of entries, the i-th real URI being Uris[i]
DiscogsImage(uri, type, width, height) ==
  [uri |-> uri, type |-> type, width |-> width, height |-> height]
DiscogsShapes ==
  {DiscogsImage("uri", t, d[1], d[2]) :
     t \in {"primary", "secondary"},
     d \in {<<500, 500>>, <<750, 750>>, <<1200, 1200>>, <<1200, 500>>}}
  \cup {DiscogsImage(u, "primary", 1200, 1200) : u \in {"", SpacerUri}}
DiscogsImageLists ==
  UNION {{[i \in 1..n |-> IF shapes[i].uri = "uri"
                          THEN [shapes[i] EXCEPT !.uri = Uris[i]]
                          ELSE shapes[i]] : shapes \in [1..n -> DiscogsShapes]} :
           n \in 0..MaxImages}

\* what /api/discogs/artist/{id} may settle with
DiscogsResponses ==
  {[kind |-> k, images |-> <<>>] : k \in {"rejected", "not ok", "unparsable", "no images"}}
  \cup {[kind |-> "json", images |-> images] : images \in DiscogsImageLists}

\* the index of the first element of images that is in the set, 0 without one
find(images, S) ==
  IF S = {} THEN 0 ELSE CHOOSE i \in S : \A j \in S : i <= j

\* fetchDiscogsImageById from data.images on
imageOfDiscogs(images) ==
  LET validImages == SelectSeq(images, LAMBDA img : isValidDiscogsImage(img.uri))
      isLarge(i) == validImages[i].width >= MIN_SIZE /\ validImages[i].height >= MIN_SIZE
      primaryImage == find(validImages, {i \in 1..Len(validImages) :
                                           validImages[i].type = "primary"})
      largeImage == find(validImages, {i \in 1..Len(validImages) : isLarge(i)})
  IN IF Len(images) = 0 \/ Len(validImages) = 0 THEN Null
     ELSE IF primaryImage # 0 /\ isLarge(primaryImage) THEN validImages[primaryImage].uri
     ELSE IF largeImage # 0 THEN validImages[largeImage].uri
     ELSE IF primaryImage # 0 THEN validImages[primaryImage].uri
     ELSE validImages[1].uri

DiscogsIds == {Undefined, "123"}
InDiscogsCall == call.fn = "fetchDiscogsImageById"

\* fetchDiscogsImageById(discogsId) up to its request: null without an id,
\* otherwise the wait of discogsRateLimiter and the fetch
FetchDiscogsImageById(discogsId) ==
  /\ call = IdleCall
  /\ call' = [fn |-> "fetchDiscogsImageById", discogsId |-> discogsId,
              pc |-> IF Falsy(discogsId) THEN "returned" ELSE "fetch",
              response |-> [kind |-> "none", images |-> <<>>],
              result |-> IF Falsy(discogsId) THEN Null ELSE Undefined]
  /\ UNCHANGED <<musicBrainzRateLimiter, pipelineVars>>

\* the request settles: null after a rejection, a non-OK response, a json()
\* rejection or a body without images, otherwise the URI chosen
DiscogsSettled(resp) ==
  /\ InDiscogsCall
  /\ call.pc = "fetch"
  /\ call' = [call EXCEPT !.pc = "returned", !.response = resp,
                          !.result = IF resp.kind = "json" THEN imageOfDiscogs(resp.images)
                                     ELSE Null]
  /\ UNCHANGED <<musicBrainzRateLimiter, pipelineVars>>

\* ------------------------------------------------------------ rate limiters
\* the discogsRateLimiter object as the page creates it; it has no rateLimited
\* property, the field is carried for the shape of the record and never read
discogsRateLimiter == [remaining |-> 60, rateLimited |-> FALSE]

discogsWaitIfNeededTwoSteps(c, lim, pc) ==
  LET delay == IF lim.remaining > 10 THEN 500 ELSE 2000
  IN [c EXCEPT !.pc = pc, !.elevated = FALSE, !.waits = Append(@, delay)]

\* discogsRateLimiter.waitIfNeeded up to its await
discogsWaitIfNeeded(c, lim, pc) ==
  LET delay == IF lim.remaining > 30 THEN 500
               ELSE IF lim.remaining > 10 THEN 1000
               ELSE 2000
  IN [c EXCEPT !.pc = pc, !.elevated = FALSE, !.waits = Append(@, delay)]

\* discogsRateLimiter.updateFromHeaders(headers)
discogsUpdateFromHeaders(lim, resp) ==
  IF resp.remaining # NoHeader THEN [lim EXCEPT !.remaining = resp.remaining] ELSE lim

\* Number of calls of a limiter's methods explored after one another.
MaxLimiterOps == 4

\* the values of the rate-limit header explored: the steps and their neighbours
Quotas == {0, 10, 11, 30, 31, 50, 51, 150, 151}

InLimiter == call.fn = "rateLimiter"

\* a limiter is looked at on its own, from the state the page creates it in
LimiterStart(name) ==
  /\ call = IdleCall
  /\ call' = [fn |-> "rateLimiter", name |-> name,
              limiter |-> IF name = "discogs" THEN discogsRateLimiter
                          ELSE [remaining |-> 300, rateLimited |-> FALSE],
              pc |-> "idle", elevated |-> FALSE, waits |-> <<>>, ops |-> 0,
              last |-> "none", header |-> NoHeader]
  /\ UNCHANGED <<musicBrainzRateLimiter, pipelineVars>>

\* updateFromHeaders(headers) of the limiter
LimiterHeaders(remaining) ==
  /\ InLimiter
  /\ call.ops < MaxLimiterOps
  /\ call' = [call EXCEPT
                !.limiter = IF call.name = "discogs"
                            THEN discogsUpdateFromHeaders(@, [remaining |-> remaining])
                            ELSE updateFromHeaders(@, [remaining |-> remaining]),
                !.ops = @ + 1, !.last = "headers", !.header = remaining]
  /\ UNCHANGED <<musicBrainzRateLimiter, pipelineVars>>

\* musicBrainzRateLimiter.markRateLimited()
LimiterMark ==
  /\ InLimiter
  /\ call.name = "musicbrainz"
  /\ call.ops < MaxLimiterOps
  /\ call' = [call EXCEPT !.limiter = markRateLimited(@), !.ops = @ + 1, !.last = "mark"]
  /\ UNCHANGED <<musicBrainzRateLimiter, pipelineVars>>

\* waitIfNeeded() of the limiter up to its await
LimiterWait ==
  /\ InLimiter
  /\ call.pc = "idle"
  /\ call.ops < MaxLimiterOps
  /\ call' = [(IF call.name = "discogs"
               THEN discogsWaitIfNeeded(call, call.limiter, "waiting")
               ELSE waitIfNeeded(call, call.limiter, "waiting"))
                EXCEPT !.ops = @ + 1, !.last = "wait"]
  /\ UNCHANGED <<musicBrainzRateLimiter, pipelineVars>>

\* the timer of waitIfNeeded fires: after the elevated wait rateLimited is
\* cleared
LimiterWaitDone ==
  /\ InLimiter
  /\ call.pc = "waiting"
  /\ call' = [call EXCEPT
                !.pc = "idle",
                !.elevated = FALSE,
                !.limiter = IF call.elevated THEN [@ EXCEPT !.rateLimited = FALSE] ELSE @,
                !.last = "done"]
  /\ UNCHANGED <<musicBrainzRateLimiter, pipelineVars>>

\* ------------------------------------------- Discogs fetches of one batch
\* Two artists of one batch that iTunes has no artwork for and MusicBrainz
\* resolves with a Discogs id, in the order of the MusicBrainz chain.
ResolvedArtists == <<"a1", "a3">>

InImages == call.fn = "fetchAllArtistImages"

\* fetchAllArtistImages: the per-artist loops of the batch have come to
\* DISCOGS and await getMbDataForArtist
ImagesStart ==
  /\ call = IdleCall
  /\ call' = [fn |-> "fetchAllArtistImages",
              mbPos |-> 1,
              limiter |-> discogsRateLimiter,
              tasks |-> [a \in Range(ResolvedArtists) |->
                           [pc |-> "mb", elevated |-> FALSE, waits |-> <<>>]]]
  /\ UNCHANGED <<musicBrainzRateLimiter, pipelineVars>>

\* the MusicBrainz chain resolves its next artist: the loop of that artist
\* calls fetchImageForSource, which calls fetchDiscogsImageById, which awaits
\* discogsRateLimiter.waitIfNeeded()
ImagesMbResolved ==
  /\ InImages
  /\ call.mbPos <= Len(ResolvedArtists)
  /\ LET a == ResolvedArtists[call.mbPos]
     IN call' = [call EXCEPT
                   !.mbPos = @ + 1,
                   !.tasks[a] = discogsWaitIfNeeded(@, call.limiter, "wait")]
  /\ UNCHANGED <<musicBrainzRateLimiter, pipelineVars>>

\* the timer of waitIfNeeded fires: fetch(`/api/discogs/artist/${discogsId}`)
ImagesWaitDone(a) ==
  /\ InImages
  /\ call.tasks[a].pc = "wait"
  /\ call' = [call EXCEPT !.tasks[a].pc = "fetch"]
  /\ UNCHANGED <<musicBrainzRateLimiter, pipelineVars>>

\* the Discogs request of the artist settles: updateFromHeaders
ImagesSettled(a, remaining) ==
  /\ InImages
  /\ call.tasks[a].pc = "fetch"
  /\ call' = [call EXCEPT
                !.tasks[a].pc = "done",
                !.limiter = discogsUpdateFromHeaders(@, [remaining |-> remaining])]
  /\ UNCHANGED <<musicBrainzRateLimiter, pipelineVars>>

MbIdsOfLastFm == {Undefined, "", "mbid-lastfm"}

HelperNext ==
  \/ \E mbid \in MbIdsOfLastFm : GetMusicBrainzData(Drama, mbid)
  \/ MbWaitDone
  \/ \E resp \in MbResponses(SearchBodies) : SearchSettled(resp)
  \/ \E resp \in MbResponses(LookupBodies) : LookupSettled(resp)
  \/ \E rateLimited \in BOOLEAN : OtherCallLimiter(rateLimited)
  \/ \E mbid \in MbIdsOfLastFm : FetchAudioDBData(mbid)
  \/ \E resp \in AdbResponses : AdbSettled(resp)
  \/ AdbWaitDone
  \/ \E username \in Usernames, artists \in ArtistLists : Analysis(username, artists)
  \/ \E status \in {0, 500, 200}, unseeded \in CryptoValues : HeadlineSettled(status, unseeded)
  \/ \E body \in HeadlineBodies, unseeded \in CryptoValues : HeadlineJson(body, unseeded)
  \/ \E artists \in ServiceRequests : ServiceAnalysis(artists)
  \/ \E discogsId \in DiscogsIds : FetchDiscogsImageById(discogsId)
  \/ \E resp \in DiscogsResponses : DiscogsSettled(resp)
  \/ \E name \in {"discogs", "musicbrainz"} : LimiterStart(name)
  \/ \E remaining \in Quotas \cup {NoHeader} : LimiterHeaders(remaining)
  \/ LimiterMark
  \/ LimiterWait
  \/ LimiterWaitDone
  \/ ImagesStart
  \/ ImagesMbResolved
  \/ \E a \in Range(ResolvedArtists) : ImagesWaitDone(a)
  \/ \E a \in Range(ResolvedArtists), remaining \in {NoHeader, 30, 10} : ImagesSettled(a, remaining)
  \/ \E username \in SeedUsernames, artists \in SeedArtistLists : SeedCall(username, artists)

HelperSpec == Init /\ [][HelperNext]_vars

\* ------------------------------------------------- getMusicBrainzData: claims
IsSearch(c, i) == c.requests[i].url = "/api/musicbrainz/artist?query="
IsRetry(c, i) == i > 1 /\ c.requests[i - 1] = c.requests[i]
Failed(resp) == resp.thrown \/ ~Ok(resp) \/ ~resp.body.parsed
StringOrNull(v) == v = Null \/ (v \in STRING /\ v \notin {Undefined, ""})

\* the name a response gives for the artist, <<>> when it gives none
NameGiven(c, i) ==
  LET resp == c.responses[i]
  IN IF resp.thrown \/ ~Ok(resp) \/ ~resp.body.parsed THEN <<>>
     ELSE IF ~IsSearch(c, i) THEN resp.body.name
     ELSE IF resp.body.artists = <<>> THEN <<>>
     ELSE resp.body.artists[1].name

\* C17: getMusicBrainzData never rejects, whatever its requests settle with
\* (rejection, non-OK status, unparsable body, missing name, id or relations,
\* a null relation); what it returns has the two fields mbid and discogsId,
\* each a non-empty string or null.
C17_MusicBrainzNeverRejects ==
  InMbCall =>
    /\ call.pc # "rejected"
    /\ call.pc = "returned" =>
         /\ DOMAIN call.result = {"mbid", "discogsId"}
         /\ StringOrNull(call.result.mbid)
         /\ StringOrNull(call.result.discogsId)

\* a lookup answered 200 whose first relation is null: the TypeError is
\* caught and the id is returned without a Discogs id
C17_Witness ==
  /\ InMbCall
  /\ call.pc = "returned"
  /\ call.mbid = "mbid-lastfm"
  /\ Len(call.responses) = 1
  /\ call.responses[1] = Response(200, NoHeader,
       [NoBody EXCEPT !.parsed = TRUE, !.name = DRAMA, !.relations = <<NullRel, ArtistRel>>])
  /\ call.result = [mbid |-> "mbid-lastfm", discogsId |-> Null]

\* C18: when a search or a lookup answers with a name that is not the queried
\* name ignoring case, the call returns at once with mbid and discogsId null:
\* no further request is sent and no id of that artist is handed on.
C18_MismatchGivesNulls ==
  InMbCall =>
    \A i \in DOMAIN call.responses :
      (NameGiven(call, i) # <<>>
         /\ toLowerCase(NameGiven(call, i)) # toLowerCase(call.artistName)) =>
        /\ call.pc = "returned"
        /\ call.result = [mbid |-> Null, discogsId |-> Null]
        /\ Len(call.requests) = i

\* Last.fm's id resolves to another artist that has a Discogs link
C18_Witness ==
  /\ InMbCall
  /\ call.pc = "returned"
  /\ call.mbid = "mbid-lastfm"
  /\ Len(call.responses) = 2
  /\ call.responses[1].status = 429
  /\ call.responses[2] = Response(200, NoHeader,
       [NoBody EXCEPT !.parsed = TRUE, !.name = Other, !.relations = <<ArtistRel>>])
  /\ call.result = [mbid |-> Null, discogsId |-> Null]

\* C19: a 429 answer to a MusicBrainz search or lookup, or to the TheAudioDB
\* request, is followed by exactly one retry of the same request, after the
\* 2000 ms backoff of the rate limiter (MusicBrainz) or after retryAfter
\* seconds, 60 by default (TheAudioDB). No request is retried for another
\* reason or a second time, and when the retry fails the call returns
\* without the request's result: the nulls after a search, no Discogs id
\* after a lookup, the empty data for TheAudioDB.
C19_OneRetryAfter429 ==
  /\ InMbCall =>
       \A i \in DOMAIN call.requests :
         /\ IsRetry(call, i) =>
              /\ ~IsRetry(call, i - 1)
              /\ ~call.responses[i - 1].thrown
              /\ call.responses[i - 1].status = 429
              /\ call.waits[i] = 2000
         /\ (i <= Len(call.responses) /\ ~IsRetry(call, i)
               /\ ~call.responses[i].thrown /\ call.responses[i].status = 429) =>
              /\ Len(call.waits) > i
              /\ call.waits[i + 1] = 2000
              /\ Len(call.requests) > i => IsRetry(call, i + 1)
              /\ Len(call.requests) = i => call.pc \in {"searchRetryWait", "lookupRetryWait"}
         /\ (i <= Len(call.responses) /\ IsRetry(call, i) /\ Failed(call.responses[i])) =>
              /\ call.pc = "returned"
              /\ Len(call.requests) = i
              /\ call.result.discogsId = Null
              /\ IsSearch(call, i) => call.result.mbid = Null
  /\ InAdbCall =>
       /\ Len(call.requests) <= 2
       /\ Len(call.requests) = 2 =>
            /\ ~call.responses[1].thrown
            /\ call.responses[1].status = 429
            /\ call.waits = <<retryAfter(call.responses[1]) * 1000>>
       /\ (Len(call.responses) >= 1 /\ ~call.responses[1].thrown
             /\ call.responses[1].status = 429) =>
            /\ call.waits = <<retryAfter(call.responses[1]) * 1000>>
            /\ Len(call.responses) = 1 => call.pc = "retryWait" \/ call.pc = "retry"
       /\ (Len(call.responses) = 2 /\ Failed(call.responses[2])) =>
            /\ call.pc = "returned"
            /\ call.result = empty

\* a search and a lookup both answered 429 and retried, the lookup's retry
\* answered 429 again: four requests and the id without a Discogs id
C19_Witness ==
  /\ InMbCall
  /\ call.pc = "returned"
  /\ Len(call.requests) = 4
  /\ IsSearch(call, 1) /\ IsRetry(call, 2) /\ ~IsSearch(call, 3) /\ IsRetry(call, 4)
  /\ call.responses[4].status = 429
  /\ call.waits[2] = 2000 /\ call.waits[4] = 2000
  /\ call.result = [mbid |-> "mbid-search", discogsId |-> Null]

\* ------------------------------------------------ personality analysis: claims
\* C20: analyzePersonality never rejects; after a network error, a non-OK
\* response or an unparsable body it returns the fallback headline
\* 'A Musical Soul', which is displayed, and the conclusive color of the final
\* mood weights is applied.
C20_HeadlineFailureFallsBack ==
  InAnalysis =>
    /\ call.run.pc # "rejected"
    /\ (/\ call.run.pc \notin {"none", "fetch", "json", "noPersonality"}
        /\ \/ call.run.response.status # 200
           \/ call.run.response.body = "unparsable") =>
         /\ call.run.pc = "done"
         /\ call.run.analysis = Fallback
         /\ call.run.headline = "A Musical Soul"
         /\ call.run.color # NoColor
         /\ call.run.color.weights = finalMoodWeightsOf(validDataOf(call.run.artists))

\* the body of a 200 response does not parse
C20_Witness ==
  /\ InAnalysis
  /\ call.run.pc = "done"
  /\ call.run.response = [status |-> 200, body |-> "unparsable"]
  /\ call.run.artists = <<DramaHappy, OtherSad>>
  /\ call.run.headline = "A Musical Soul"
  /\ call.run.color.weights = {[mood |-> "Happy", count |-> 42, total |-> 49],
                               [mood |-> "Sad", count |-> 7, total |-> 49]}

\* both runs are over and were given the same username, artist list and
\* answers of the providers
SameInputs(r1, r2) ==
  /\ Over(r1) /\ Over(r2)
  /\ r1.username = r2.username
  /\ r1.artists = r2.artists
  /\ r1.response = r2.response

\* the two artist lists are equal but for the names of the artists
DifferOnlyInNames(l1, l2) ==
  /\ Len(l1) = Len(l2)
  /\ l1 # l2
  /\ \A i \in DOMAIN l1 : [l1[i] EXCEPT !.name = l2[i].name] = l2[i]

\* C15: the request sent to /api/personality holds no artist name: its
\* artists entries have no name field, and two runs of the same user whose
\* artist lists differ only in the names send equal requests.
C15_NoArtistNameInRequest ==
  InAnalysis =>
    /\ \A i \in DOMAIN call.run.request.artists :
         "name" \notin DOMAIN call.run.request.artists[i]
    /\ (/\ call.prev.pc \in {"done", "thrown"}
        /\ call.run.pc \notin {"none", "noPersonality"}
        /\ call.prev.username = call.run.username
        /\ DifferOnlyInNames(call.prev.artists, call.run.artists)) =>
         call.prev.request = call.run.request

\* C16: two runs given the same username, artist list and answers derive the
\* same seed, send the same seed to /api/personality and end with the same
\* conclusive color.
C16_SameInputsSameSeedAndColor ==
  (InAnalysis /\ SameInputs(call.prev, call.run)) =>
    /\ call.prev.seed = call.run.seed
    /\ call.prev.request.seed = call.run.request.seed
    /\ call.prev.color = call.run.color

\* ------------------------------------------------- personality service: claims
\* the play-count weight of the artists of the set S
RECURSIVE WeightSum(_, _)
WeightSum(artists, S) ==
  IF S = {} THEN 0
  ELSE LET i == CHOOSE i \in S : TRUE
       IN weightOf(artists[i]) + WeightSum(artists, S \ {i})

\* the genre families of a request and the weight of each
FamiliesOf(artists) == {normalizedGenre(artists[i]) : i \in DOMAIN artists} \ {Null}
FamilyWeight(artists, f) ==
  WeightSum(artists, {i \in DOMAIN artists : normalizedGenre(artists[i]) = f})

MoodsOf(artists) == {normalizedMood(artists[i]) : i \in DOMAIN artists} \ {Null}
MoodWeight(artists, m) ==
  WeightSum(artists, {i \in DOMAIN artists : normalizedMood(artists[i]) = m})

\* the plays of the artists of the set S of a list of the page
RECURSIVE PlaysSum(_, _)
PlaysSum(artists, S) ==
  IF S = {} THEN 0
  ELSE LET i == CHOOSE i \in S : TRUE
       IN playcountOf(artists[i]) + PlaysSum(artists, S \ {i})

\* C22: the weight of a mood is the plays of the artists with that mood over
\* the plays of all artists with a mood, so every weight lies in [0,1] and
\* the weights sum to 1 (without any mood: relaxed with weight 1); the
\* dominant mood of the service is a mood of the greatest weight, 'relaxed'
\* without any.
C22_MoodWeights ==
  /\ (InAnalysis /\ call.run.pc = "done") =>
       LET artists == call.run.artists
           weights == call.run.color.weights
           withMood == {i \in DOMAIN artists : ~Falsy(artists[i].mood)}
       IN IF withMood = {}
          THEN weights = {[mood |-> "relaxed", count |-> 1, total |-> 1]}
          ELSE /\ {w.mood : w \in weights} = {artists[i].mood : i \in withMood}
               /\ \A w \in weights :
                    /\ w.total = PlaysSum(artists, withMood)
                    /\ w.count = PlaysSum(artists, {i \in withMood : artists[i].mood = w.mood})
                    /\ 0 <= w.count /\ w.count <= w.total /\ w.total > 0
               /\ \A w1, w2 \in weights : w1.mood = w2.mood => w1 = w2
               /\ PlaysSum(artists, withMood) =
                    PlaysSum(artists, {i \in withMood :
                                         \E w \in weights : w.mood = artists[i].mood})
  /\ InService =>
       LET artists == call.artists
           moods == MoodsOf(artists)
           mood == call.result.mood
       IN IF moods = {} THEN mood = "relaxed"
          ELSE /\ mood \in moods
               /\ \A m \in moods : MoodWeight(artists, m) <= MoodWeight(artists, mood)

\* A: 100 happy and B: 50 sad give happy 100/150 and sad 50/150
C22_Witness ==
  /\ InAnalysis
  /\ call.run.pc = "done"
  /\ call.run.artists = HappyAndSad
  /\ call.run.color.weights = {[mood |-> "happy", count |-> 100, total |-> 150],
                               [mood |-> "sad", count |-> 50, total |-> 150]}

\* ------------------------------------------------------------ loadUser: frame
\* C23: a call of loadUser leaves no rotation interval and no pending start
\* timer, an empty availableSources, the rotation index 0 and direction 1,
\* auto-rotation enabled and the default provider order, and changes none of
\* imageCache (with its MusicBrainz entries), the luminance cache and
\* personalityCache.
C23_LoadUserFrame ==
  [][loadCount' = loadCount + 1 =>
       /\ ~autoRotationInterval' /\ ~autoRotationStartTimeout'
       /\ availableSources' = <<>>
       /\ autoRotationSourceIndex' = 0 /\ autoRotationDirection' = 1
       /\ ~autoRotationDisabled'
       /\ imageSources' = ORIGINAL_SOURCE_ORDER
       /\ UNCHANGED <<imageCache, mbDataCache, luminanceCache, personalityCache>>]_vars

\* the second loadUser has run up to its request, after a load that filled
\* the caches and iterated the providers in the order a selection had made
C23_Witness ==
  /\ loadCount = 2
  /\ loads[2].phase = "listing"
  /\ loads[1].order = PrimaryFirst("DISCOGS")
  /\ \E a \in ArtistNames : imageCache[a]["ITUNES"] = "url" /\ mbDataCache[a] # "absent"
  /\ \E a \in ArtistNames : personalityCache[a] # "absent"
  /\ availableSources = <<>>
  /\ ~autoRotationInterval /\ ~autoRotationStartTimeout
  /\ imageSources = ORIGINAL_SOURCE_ORDER

\* C24: every request of a getMusicBrainzData call (search, lookup, each
\* retry) is sent by the end of a waitIfNeeded() that was started after the
\* previous request of the call had been answered, and when its response
\* arrives updateFromHeaders() is applied to it in the same step, before any
\* further wait or request of the call.
C24_WaitRequestHeaders ==
  [][InMbCall /\ InMbCall' =>
       /\ Len(call'.requests) # Len(call.requests) =>
            /\ Len(call'.requests) = Len(call.requests) + 1
            /\ call.pc \in {"searchWait", "searchRetryWait", "lookupWait", "lookupRetryWait"}
            /\ Len(call.waits) = Len(call.requests) + 1
            /\ Len(call.responses) = Len(call.requests)
            /\ UNCHANGED <<call.waits, call.responses>>
       /\ Len(call'.waits) # Len(call.waits) =>
            /\ Len(call'.waits) = Len(call.waits) + 1
            /\ Len(call.waits) = Len(call.requests)
            /\ Len(call'.responses) = Len(call.requests)
            /\ UNCHANGED call.requests
       /\ Len(call'.responses) # Len(call.responses) =>
            LET resp == call'.responses[Len(call'.responses)]
            IN /\ Len(call'.responses) = Len(call.requests)
               /\ Len(call.responses) + 1 = Len(call.requests)
               /\ ~resp.thrown =>
                    musicBrainzRateLimiter'.remaining =
                      IF resp.remaining # NoHeader THEN resp.remaining
                      ELSE musicBrainzRateLimiter.remaining]_vars

\* a call that sent the search, its retry, the lookup and its retry, whose
\* first response carried X-RateLimit-Remaining: 20
C24_Witness ==
  /\ InMbCall
  /\ call.pc = "returned"
  /\ Len(call.requests) = 4 /\ Len(call.waits) = 4 /\ Len(call.responses) = 4
  /\ call.responses[1].remaining = 20
  /\ musicBrainzRateLimiter.remaining = 20

\* C25: an entry of the image cache, whether the image entry of an (artist,
\* provider) pair or the MusicBrainz entry of an artist, once written is never
\* written with another value nor removed, also when loads that share artists
\* overlap.
C25_EntriesWrittenOnce ==
  [][\A a \in ArtistNames :
       /\ mbDataCache[a] # "absent" => mbDataCache'[a] = mbDataCache[a]
       /\ \A source \in Sources :
            imageCache[a][source] # "absent" =>
              imageCache'[a][source] = imageCache[a][source]]_vars

\* C26: per load the headline request is sent at most once (personalityPromise
\* goes from pending to the request and from there to done, never back), it is
\* sent only when the sample of every artist of the batch has resolved and one
\* of them has a genre, style or mood, and the conclusive color is set only by
\* the load whose request was answered, by a call that does not dampen.
C26_HeadlineOnceAfterAllSamples ==
  [][/\ \A g \in LoadIds :
          /\ loads'[g].persAll = "headline" /\ loads[g].persAll # "headline" =>
               /\ loads[g].persAll = "pending"
               /\ \A a \in Range(loads[g].artists) : loads[g].pers[a] \in {"valid", "empty"}
               /\ \E a \in Range(loads[g].artists) : loads[g].pers[a] = "valid"
          /\ loads[g].persAll = "headline" => loads'[g].persAll \in {"headline", "done"}
          /\ loads[g].persAll = "done" => loads'[g].persAll = "done"
     /\ backgroundColor' # backgroundColor /\ backgroundColor'.conclusive =>
          /\ loads[backgroundColor'.load].persAll = "headline"
          /\ loads'[backgroundColor'.load].persAll = "done"
          /\ ~dampens(backgroundColor', NArtists(loads[backgroundColor'.load]))]_vars

\* the request of a load of two artists was answered and its conclusive color
\* set while only one tile had loaded, after a dampened progressive color
C26_Witness ==
  \E g \in LoadIds :
     /\ NArtists(loads[g]) = 2
     /\ loads[g].persAll = "done"
     /\ backgroundColor = ConclusiveColor(g, currentPersonalitySeed)
     /\ Cardinality(loads[g].loaded) = 1
     /\ loads[g].lastCount = 1

\* C27: after every step that leaves the rotation interval installed the index
\* is a position of availableSources (counted from 0), it stands at the first position only
\* heading up and at the last only heading down, and each tick moves it by
\* exactly one in the current direction and shows the provider at the new
\* position; a provider added between two ticks does not change this.
C27_PingPong ==
  [][/\ autoRotationInterval' =>
          /\ autoRotationSourceIndex' \in 0..(Len(availableSources') - 1)
          /\ autoRotationDirection' \in {-1, 1}
          /\ autoRotationSourceIndex' = 0 => autoRotationDirection' = 1
          /\ autoRotationSourceIndex' = Len(availableSources') - 1 =>
               autoRotationDirection' = -1
     /\ IsRotationTick =>
          /\ autoRotationSourceIndex' = autoRotationSourceIndex + autoRotationDirection
          /\ checkedRadio' = availableSources[autoRotationSourceIndex' + 1]
          /\ autoRotationDirection' =
               IF autoRotationSourceIndex' = Len(availableSources) - 1 THEN -1
               ELSE IF autoRotationSourceIndex' = 0 THEN 1
               ELSE autoRotationDirection]_vars

\* the rotation stands at the last of three providers, heading down
C27_Witness ==
  /\ autoRotationInterval
  /\ Len(availableSources) = 3
  /\ autoRotationSourceIndex = 2
  /\ autoRotationDirection = -1
  /\ checkedRadio = availableSources[3]

\* C28: availableSources holds no provider twice and its elements stand in
\* the relative order they have in CONFIG.imageSources.
C28_AvailableInConfigOrder ==
  \A i, j \in 1..Len(availableSources) :
     i < j => IndexOf(imageSources, availableSources[i])
                < IndexOf(imageSources, availableSources[j])

\* C29: a luminance entry of DISCOGS or THE_AUDIO_DB is never light, a
\* CORS-mode load for pixel analysis is awaited only for ITUNES, and a pixel
\* analysis never completes for a key that already has an entry (no entry is
\* computed a second time).
C29_LuminanceOnlyITunesOnce ==
  [][\A a \in ArtistNames :
       /\ \A source \in {"DISCOGS", "THE_AUDIO_DB"} :
            luminanceCache'[a][source] \in {"absent", "dark"}
       /\ \A g \in LoadIds :
            /\ loads'[g].taskSt[a] = "lum" =>
                 loads'[g].order[loads'[g].taskK[a]] = "ITUNES"
            /\ loads[g].taskSt[a] = "lum" /\ loads'[g].taskSt[a] # "lum" =>
                 luminanceCache[a]["ITUNES"] = "absent"]_vars

\* C30: of the images of a Discogs artist whose URI is neither empty nor the
\* spacer placeholder, fetchDiscogsImageById returns the URI of the
\* primary-flagged one when its width and height both reach 3 x tileSize,
\* otherwise of the largest image reaching that floor, otherwise of some valid
\* image, and null when no image is valid.
C30_DiscogsImageChoice ==
  InDiscogsCall /\ call.pc = "returned" /\ call.response.kind = "json" =>
    LET images == call.response.images
        valid == {i \in 1..Len(images) : images[i].uri \notin {"", SpacerUri}}
        floor == {i \in valid : images[i].width >= 3 * tileSize
                                 /\ images[i].height >= 3 * tileSize}
        primary == {i \in valid : images[i].type = "primary"}
        first == find(images, primary)
        area(i) == images[i].width * images[i].height
    IN IF valid = {} THEN call.result = Null
       ELSE IF first \in floor THEN call.result = images[first].uri
       ELSE IF floor # {}
       THEN \E i \in floor : /\ call.result = images[i].uri
                             /\ \A j \in floor : area(j) <= area(i)
       ELSE \E i \in valid : call.result = images[i].uri

\* the canonical mood of the mood terms TheAudioDB gives in the runs explored
CanonicalMood(mood) ==
  CASE mood \in {"Happy", "happy"} -> "happy"
    [] mood \in {"Sad", "sad"} -> "sad"
    [] OTHER -> mood

\* C31: the mood weights given to generateBlendedColor for the conclusive
\* color are keyed by canonical moods that MOOD_COLORS holds, and the weight
\* of a canonical mood counts the plays of every artist whose mood term
\* normalizes to it.
C31_WeightsPerCanonicalMood ==
  (InAnalysis /\ call.run.pc = "done") =>
    LET artists == call.run.artists
        weights == call.run.color.weights
        withMood == {i \in DOMAIN artists : ~Falsy(artists[i].mood)}
    IN /\ entriesOf(weights) = weights
       /\ \A w \in weights :
            withMood # {} =>
              w.count = PlaysSum(artists, {i \in withMood :
                                             CanonicalMood(artists[i].mood) = w.mood})

\* a step that sets a progressive color
IsProgressiveUpdate == backgroundColor' # backgroundColor /\ ~backgroundColor'.conclusive

StepDelay(name, remaining) ==
  IF name = "discogs"
  THEN (IF remaining > 30 THEN 500 ELSE IF remaining > 10 THEN 1000 ELSE 2000)
  ELSE (IF remaining > 150 THEN 200 ELSE IF remaining > 50 THEN 500 ELSE 1000)

\* the delay a limiter with that remaining quota and a clear flag waits for
DelayAt(name, remaining) ==
  LET c == [pc |-> "idle", elevated |-> FALSE, waits |-> <<>>]
      lim == [remaining |-> remaining, rateLimited |-> FALSE]
  IN IF name = "discogs" THEN discogsWaitIfNeeded(c, lim, "waiting").waits[1]
     ELSE waitIfNeeded(c, lim, "waiting").waits[1]

IsLimiterStep(op) == InLimiter /\ InLimiter' /\ call' # call /\ call'.last = op

PairOf(artist) == toLowerCase(artist.name) \o <<58>> \o artist.playcount
PairCount(artists, pair) == Cardinality({i \in DOMAIN artists : PairOf(artists[i]) = pair})
SamePairs(l1, l2) ==
  \A pair \in {PairOf(l1[i]) : i \in DOMAIN l1} \cup {PairOf(l2[i]) : i \in DOMAIN l2} :
    PairCount(l1, pair) = PairCount(l2, pair)

\* C34: two renders whose usernames are equal in lower case and whose artist
\* lists hold the same lower-cased name:playcount pairs the same number of
\* times have the same personality seed.
C34_SeedOfLowerCasedMultiset ==
  (InSeed /\ call.prev.made
   /\ toLowerCase(call.prev.username) = toLowerCase(call.run.username)
   /\ SamePairs(call.prev.artists, call.run.artists))
    => call.run.seed = call.prev.seed

\* "rj" with Drama before Other, then "RJ" with Other before DRAMA
C34_Witness ==
  /\ InSeed
  /\ call.prev.made
  /\ call.prev.username = rj
  /\ call.run.username = <<82, 74>>
  /\ Len(call.prev.artists) = 2
  /\ call.prev.artists[1].name = Drama
  /\ Len(call.run.artists) = 2
  /\ call.run.artists[2].name = DRAMA
  /\ call.run.seed = call.prev.seed
  /\ call.run.seed # Word(0, 0)

\* ------------------------------------------------------------------- C35
\* the display states a tile is in
DisplayStates(t) ==
  (IF Loading(t) THEN {"Loading"} ELSE {})
    \cup (IF ImageReady(t) THEN {"ImageReady"} ELSE {})
    \cup (IF NoImage(t) THEN {"NoImage"} ELSE {})

\* C35: every tile is in exactly one of the display states Loading, ImageReady
\* and NoImage, and an ImageReady tile has exactly one active layer, which
\* holds an image.
C35_OneDisplayState ==
  \A a \in DOMAIN tiles :
    /\ Cardinality(DisplayStates(tiles[a])) = 1
    /\ ImageReady(tiles[a]) =>
         /\ Cardinality(tiles[a].active) = 1
         /\ tiles[a].active \subseteq tiles[a].hasImage

\* ------------------------------------------------------------------- C36
\* C36: once the artist list of a load has been rendered, a personality
\* element showing the loading animation eventually shows a headline or is
\* hidden.
C36_AnimationStops ==
  \A g \in LoadIds :
    (loads[g].phase \in {"images", "prefetch", "finished"} /\ personalityEl = "loading")
      ~> (personalityEl \in {"headline", "hidden"})

\* ------------------------------------------------------------------- C37
\* C37: within one batch at most one Discogs request is in flight at any
\* time.
C37_OneDiscogsRequestInFlight ==
  InImages => Cardinality({a \in Range(ResolvedArtists) : call.tasks[a].pc = "fetch"}) <= 1

\* ------------------------------------------------------------------- C38
\* C38: the seed read for the headline request of a load and the seed of the
\* generator of its conclusive color are the seed renderArtists derived for
\* that load.
C38_OwnSeed ==
  /\ \A g \in LoadIds : loads[g].persAll = "headline" => loads[g].hlSeed = g
  /\ backgroundColor.conclusive => backgroundColor.seed = backgroundColor.load

\* ------------------------------------------------------------------- C39
\* the Discogs artist links among the relations, and the body the result was
\* read from
DiscogsArtistLinks(relations) ==
  {i \in 1..Len(relations) :
     /\ relations[i].type = "discogs"
     /\ DiscogsMatch(relations[i].resource) # Null}
LastBody == call.responses[Len(call.responses)].body

\* C39: a result of getMusicBrainzData with a Discogs id has an mbid too, and
\* its Discogs id is the id in the URL of the first relation of type 'discogs'
\* that links to a Discogs artist page.
C39_DiscogsIdOfFirstLink ==
  (InMbCall /\ call.pc = "returned" /\ call.result.discogsId # Null) =>
    /\ ~Falsy(call.result.mbid)
    /\ call.responses # <<>>
    /\ LET links == DiscogsArtistLinks(LastBody.relations)
       IN /\ links # {}
          /\ \E i \in links :
               /\ \A j \in links : i <= j
               /\ call.result.discogsId = DiscogsMatch(LastBody.relations[i].resource)

\* the result holds the id 456 of the first artist link, the link to the
\* artist 123 comes after it
C39_Witness ==
  /\ InMbCall
  /\ call.pc = "returned"
  /\ call.result.discogsId = "456"
  /\ call.result.mbid # Null
  /\ LastBody.relations = <<SecondArtistRel, ArtistRel>>

====
